---------------------------- MODULE Spec2Model ----------------------------
(***************************************************************************)
(* Sentinel: editor-integrated static analyser for Arduino-dialect C/C++.  *)
(* The module models the comment stripper, the diagnostic rule engine, the *)
(* pin usage tracker and the analysis session of the language server.      *)
(* Offsets are 0-based as in the JavaScript source; a text is a sequence   *)
(* of one-character strings, so text[i] of the source is text[i + 1] here. *)
(***************************************************************************)
EXTENDS Integers, Sequences, FiniteSets, TLC

VARIABLES
    pc,           \* phase of the run: "input", then "scanned", "built", "validated", "analyzed" or "tracked"
    text,         \* the document's text
    subject,      \* the text CommentStripper was applied to
    stripped,     \* CommentStripper.strip(subject)
    inComment,    \* offset -> CommentStripper.isInComment(subject, offset)
    usages,       \* the usages handed to PinTracker.buildPinMap
    pinMap,       \* PinTracker.pinMap
    annotated,    \* what buildPinMap returned
    previous,     \* the usages the call of buildPinMap before this one was given
    typed,        \* the snippets typed so far, in order (text is their concatenation)
    palette,      \* the snippets this run types from
    currentBoard, \* HardwareDatabase.currentBoard
    throwers,     \* the validators that throw in the validateDocument call
    outputs,      \* what each validator returns when it does not throw
    reported,     \* what validateDocument returned
    version,      \* the document's version
    inflight,     \* analysis passes suspended at their await
    published,    \* the last sendDiagnostics for the document, and the board it was computed under
    channel,      \* notifications on their way to the extension
    cachedPinMap, \* SentinelSidebarProvider._cachedPinMap
    cachedLiveMemory, \* SentinelSidebarProvider._cachedLiveMemory
    storage,      \* the hardware-db directory on disk
    boards,       \* HardwareDatabase.boards (the ids it maps)
    protocols,    \* HardwareDatabase.protocols (the ids it maps)
    commonLibraries, \* HardwareDatabase.commonLibraries (the ids it maps)
    initialized,  \* how the handleInitialize request ended, "pending" before it
    answers,      \* the last isPinValid / isPinCapable query and what it returned
    requested,    \* the id the last loadBoard call was given
    memoryBoard,  \* MemoryAnalyzer.currentBoard
    failing,      \* the estimation steps that throw in the analyzeMemory call
    analysis,     \* what analyzeMemory returned
    cachedMemory, \* SentinelSidebarProvider._cachedMemory
    cachedFileUri, \* SentinelSidebarProvider._cachedFileUri
    activeFile,   \* the uri of vscode.window.activeTextEditor's document
    view,         \* SentinelSidebarProvider._view: whether resolved, and visible
    timers,       \* the pending setTimeout(() => this.sendAllCachedData(), delay)
    posted        \* the last messages a handler posted to the webview

stripperVars == <<subject, stripped, inComment>>
trackerVars == <<usages, pinMap, annotated, previous>>
providerVars == <<typed, palette, currentBoard, throwers, outputs, reported>>
sessionVars == <<version, inflight, published, channel, cachedPinMap, cachedLiveMemory>>
databaseVars == <<storage, boards, protocols, commonLibraries, initialized, answers,
                 requested>>
memoryVars == <<memoryBoard, failing, analysis>>
sidebarVars == <<cachedMemory, cachedFileUri, activeFile, view, timers, posted>>
vars == <<pc, text, stripperVars, trackerVars, providerVars, sessionVars, databaseVars,
         memoryVars, sidebarVars>>

\* JavaScript's undefined, read by code[i] past the end of the string.
Undefined == "undefined"

\* HardwareDatabase.currentBoard = null
NoBoard == "none"

(***************************************************************************)
(* Characters                                                              *)
(***************************************************************************)
SL == "/"
ST == "*"
DQ == "\""
SQ == "'"
BS == "\\"
NL == "\n"
SP == " "

\* code[i] of the source (0-based)
At(code, i) == IF i >= 0 /\ i < Len(code) THEN code[i + 1] ELSE Undefined

(***************************************************************************)
(* CommentStripper.strip                                                   *)
(***************************************************************************)

\* the escape test of both scanners: (inString || inChar) && char === '\\'
IsEscapeOff(inString, inChar, char) == FALSE
IsEscapeInChar(inString, inChar, char) == inChar /\ char = BS
IsEscape(inString, inChar, char) == (inString \/ inChar) /\ char = BS

\* what the comment loops append for the characters at offsets i..(j - 1):
\* a newline for a newline; a space for any other character
blanks(code, i, j, keepNewlines) ==
    [k \in 1..(j - i) |-> IF keepNewlines /\ code[i + k] = NL THEN NL ELSE SP]

\* the inner loop of a multi-line comment, entered with i after the opener;
\* yields the index the outer loop resumes at and the grown result.  The
\* loop stops at the first star-slash at or after i, or at code.length
stripBlock(code, i, result) ==
    LET closes == {k \in i..(Len(code) - 1) : At(code, k) = ST /\ At(code, k + 1) = SL}
    IN  IF closes # {}
        THEN LET k == CHOOSE c \in closes : \A j \in closes : c <= j
             IN  [i |-> k + 2, result |-> result \o blanks(code, i, k + 1, TRUE) \o <<SP>>]
        ELSE IF i < Len(code)
        THEN [i |-> Len(code), result |-> result \o blanks(code, i, Len(code), TRUE)]
        ELSE [i |-> i, result |-> result]

\* the inner loop of a single-line comment, entered with i after the opener:
\* it stops at the first newline at or after i, which it copies, or at
\* code.length
stripLine(code, i, result) ==
    LET breaks == {k \in i..(Len(code) - 1) : At(code, k) = NL}
    IN  IF breaks # {}
        THEN LET k == CHOOSE c \in breaks : \A j \in breaks : c <= j
             IN  [i |-> k + 1, result |-> result \o blanks(code, i, k, FALSE) \o <<NL>>]
        ELSE IF i < Len(code)
        THEN [i |-> Len(code), result |-> result \o blanks(code, i, Len(code), FALSE)]
        ELSE [i |-> i, result |-> result]

\* one iteration of the while loop, from the state s = [i, inString, inChar,
\* result]
stripStep(code, s) ==
    LET i == s.i
        char == At(code, i)
        next == At(code, i + 1)
        copy(n, chars) == [s EXCEPT !.i = i + n, !.result = s.result \o chars]
    IN  IF IsEscape(s.inString, s.inChar, char)
        THEN copy(2, IF next = Undefined THEN <<char>> ELSE <<char, next>>)
        ELSE IF ~s.inChar /\ char = DQ
        THEN [copy(1, <<char>>) EXCEPT !.inString = ~s.inString]
        ELSE IF ~s.inString /\ char = SQ
        THEN [copy(1, <<char>>) EXCEPT !.inChar = ~s.inChar]
        ELSE IF s.inString \/ s.inChar
        THEN copy(1, <<char>>)
        ELSE IF char = SL /\ next = ST
        THEN LET b == stripBlock(code, i + 2, Append(s.result, SP))
             IN  [s EXCEPT !.i = b.i, !.result = b.result]
        ELSE IF char = SL /\ next = SL
        THEN LET l == stripLine(code, i + 2, Append(s.result, SP))
             IN  [s EXCEPT !.i = l.i, !.result = l.result]
        ELSE copy(1, <<char>>)

\* at most n iterations of while (i < code.length) { ... }; every iteration
\* advances i, so code.length iterations reach the end of the loop.  The
\* iterations are run as two halves, which keeps the evaluation shallow.
RECURSIVE stripLoop(_, _, _)
stripLoop(code, s, n) ==
    IF n = 0 \/ s.i >= Len(code) THEN s
    ELSE IF n = 1 THEN stripStep(code, s)
    ELSE stripLoop(code, stripLoop(code, s, n \div 2), n - (n \div 2))

strip(code) ==
    stripLoop(code, [i |-> 0, inString |-> FALSE, inChar |-> FALSE, result |-> <<>>],
              Len(code)).result

(***************************************************************************)
(* CommentStripper.isInComment                                             *)
(***************************************************************************)

\* index after the closing star-slash of a block comment, or code.length
blockEnd(code, i) ==
    LET closes == {k \in i..(Len(code) - 1) : At(code, k) = ST /\ At(code, k + 1) = SL}
    IN  IF closes # {} THEN (CHOOSE k \in closes : \A j \in closes : k <= j) + 2
        ELSE IF i < Len(code) THEN Len(code)
        ELSE i

\* index of the newline ending a line comment, or code.length
lineEnd(code, i) ==
    LET breaks == {k \in i..(Len(code) - 1) : At(code, k) = NL}
    IN  IF breaks # {} THEN CHOOSE k \in breaks : \A j \in breaks : k <= j
        ELSE IF i < Len(code) THEN Len(code)
        ELSE i

\* position >= commentStart && position < i
inSpanClosed(position, commentStart, i) ==
    position >= commentStart /\ position <= i
inSpan(position, commentStart, i) ==
    position >= commentStart /\ position < i

\* one iteration of the while loop, from the state s = [i, inString, inChar];
\* returned is set when the iteration returns true
isInCommentStep(code, position, s) ==
    LET i == s.i
        char == At(code, i)
        next == At(code, i + 1)
        goto(j) == [s EXCEPT !.i = j]
    IN  IF IsEscape(s.inString, s.inChar, char) THEN goto(i + 2)
        ELSE IF ~s.inChar /\ char = DQ
        THEN [s EXCEPT !.i = i + 1, !.inString = ~s.inString]
        ELSE IF ~s.inString /\ char = SQ
        THEN [s EXCEPT !.i = i + 1, !.inChar = ~s.inChar]
        ELSE IF s.inString \/ s.inChar THEN goto(i + 1)
        ELSE IF char = SL /\ next = ST
        THEN LET e == blockEnd(code, i + 2)
             IN  IF inSpan(position, i, e) THEN [s EXCEPT !.returned = TRUE]
                 ELSE goto(e)
        ELSE IF char = SL /\ next = SL
        THEN LET e == lineEnd(code, i + 2)
             IN  IF inSpan(position, i, e) THEN [s EXCEPT !.returned = TRUE]
                 ELSE goto(IF e < Len(code) THEN e + 1 ELSE e)
        ELSE goto(i + 1)

\* at most n iterations of while (i < position) { ... }; every iteration
\* advances i, so position iterations reach the end of the loop.  The
\* iterations are run as two halves, which keeps the evaluation shallow.
RECURSIVE isInCommentLoop(_, _, _, _)
isInCommentLoop(code, position, s, n) ==
    IF n = 0 \/ s.returned \/ s.i >= position THEN s
    ELSE IF n = 1 THEN isInCommentStep(code, position, s)
    ELSE isInCommentLoop(code, position,
                         isInCommentLoop(code, position, s, n \div 2),
                         n - (n \div 2))

\* return true inside the loop, return false after it
isInComment(code, position) ==
    isInCommentLoop(code, position,
                    [i |-> 0, inString |-> FALSE, inChar |-> FALSE, returned |-> FALSE],
                    position).returned

(***************************************************************************)
(* Text helpers of the diagnostic rule engine: JavaScript string methods   *)
(* and the pieces of the regular expressions the validators use.           *)
(***************************************************************************)
Digits == {"0", "1", "2", "3", "4", "5", "6", "7", "8", "9"}
Upper == {"A", "B", "C", "D", "E", "F", "G", "H", "I", "J", "K", "L", "M",
          "N", "O", "P", "Q", "R", "S", "T", "U", "V", "W", "X", "Y", "Z"}
Lower == {"a", "b", "c", "d", "e", "f", "g", "h", "i", "j", "k", "l", "m",
          "n", "o", "p", "q", "r", "s", "t", "u", "v", "w", "x", "y", "z"}

\* \s, \d, [0-9A-Fa-f], \w, [A-Z]
IsWs(c) == c \in {SP, NL, "\t", "\r"}
IsDigit(c) == c \in Digits
IsHex(c) == c \in Digits \cup {"A", "B", "C", "D", "E", "F", "a", "b", "c", "d", "e", "f"}
IsWord(c) == c \in Digits \cup Upper \cup Lower \cup {"_"}
IsUpper(c) == c \in Upper

\* the value of one digit in parseInt(s) and parseInt(s, 16)
DigitValue(c) ==
    CASE c = "0" -> 0 [] c = "1" -> 1 [] c = "2" -> 2 [] c = "3" -> 3
      [] c = "4" -> 4 [] c = "5" -> 5 [] c = "6" -> 6 [] c = "7" -> 7
      [] c = "8" -> 8 [] c = "9" -> 9
      [] c \in {"A", "a"} -> 10 [] c \in {"B", "b"} -> 11
      [] c \in {"C", "c"} -> 12 [] c \in {"D", "d"} -> 13
      [] c \in {"E", "e"} -> 14 [] c \in {"F", "f"} -> 15

\* parseInt of a string of digits of the given radix
RECURSIVE parseDigits(_, _, _)
parseDigits(s, radix, acc) ==
    IF s = <<>> THEN acc
    ELSE parseDigits(Tail(s), radix, acc * radix + DigitValue(Head(s)))

\* parseInt of a string that does not start with a digit
NaN == -1

parseInt(s) ==
    IF s # <<>> /\ IsDigit(Head(s)) THEN parseDigits(s, 10, 0) ELSE NaN
parseHex(s) == parseDigits(s, 16, 0)

\* text.substring(i, j)
Substring(t, i, j) == SubSeq(t, i + 1, j)

\* the least element of a non-empty set of offsets
Least(S) == CHOOSE i \in S : \A j \in S : i <= j

\* does lit occur in t at offset i
StartsWithAt(t, i, lit) ==
    /\ i + Len(lit) <= Len(t)
    /\ \A k \in 1..Len(lit) : t[i + k] = lit[k]

\* t.indexOf(lit, from): the first offset >= from where lit occurs, or -1
indexOfFrom(t, lit, from) ==
    LET hits == {i \in from..(Len(t) - Len(lit)) : StartsWithAt(t, i, lit)}
    IN  IF hits = {} THEN -1 ELSE Least(hits)

indexOf(t, lit) == indexOfFrom(t, lit, 0)
includes(t, lit) == indexOf(t, lit) >= 0

\* the offset after the longest run of characters satisfying P from offset i
\* (a greedy \s*, \d*, \w*)
RECURSIVE TakeWhile(_, _, _)
TakeWhile(P(_), t, i) ==
    IF i < Len(t) /\ P(t[i + 1]) THEN TakeWhile(P, t, i + 1) ELSE i

skipWs(t, i) == TakeWhile(IsWs, t, i)

\* the offset after an optional character satisfying P at offset i ([A-Z]?)
skipOne(P(_), t, i) == IF i < Len(t) /\ P(t[i + 1]) THEN i + 1 ELSE i

\* document.positionAt(offset): the number of line breaks before the offset
\* and the distance from the last of them
lineStart(t, offset) ==
    LET breaks == {k \in 1..offset : t[k] = NL}
    IN  IF breaks = {} THEN 0 ELSE CHOOSE k \in breaks : \A j \in breaks : j <= k

countNewlines(t, offset) == Cardinality({k \in 1..offset : t[k] = NL})

positionAt(t, offset) ==
    [line |-> countNewlines(t, offset), character |-> offset - lineStart(t, offset)]

\* a failed regular expression match
NoMatch == [ok |-> FALSE]

\* pattern.exec(t) with lastIndex = from: the leftmost offset at or after
\* from where the pattern, tried by M, matches
leftmost(M(_, _), t, from) ==
    LET hits == {i \in from..Len(t) : M(t, i).ok}
    IN  IF hits = {} THEN NoMatch ELSE M(t, Least(hits))

(***************************************************************************)
(* The stripper driven by an editor: characters are typed, then the text   *)
(* (or the text written out as a string or char literal) is scanned.       *)
(***************************************************************************)
MaxLen == 5

Alphabet == {SL, ST, DQ, SQ, BS, NL, "a"}

\* the content s written as a literal quoted by q: every quote character
\* and every backslash of s is escaped by a backslash
RECURSIVE Escaped(_)
Escaped(s) ==
    IF s = <<>> THEN <<>>
    ELSE (IF Head(s) \in {DQ, SQ, BS} THEN <<BS, Head(s)>> ELSE <<Head(s)>>)
         \o Escaped(Tail(s))

AsLiteral(q, s) == <<q>> \o Escaped(s) \o <<q>>

StripperIdle ==
    /\ subject = <<>>
    /\ stripped = <<>>
    /\ inComment = <<>>

\* no board loaded, nothing typed, no validateDocument call made
ProviderIdle ==
    /\ typed = <<>>
    /\ palette = {}
    /\ currentBoard = "none"
    /\ throwers = {}
    /\ outputs = <<>>
    /\ reported = <<>>

\* no document open, nothing published, the sidebar's caches undefined
NoResults == [version |-> 0, uri |-> Undefined]

\* nothing posted to the webview yet
NoPost ==
    [by |-> "none", memory |-> NoResults, pinMap |-> NoResults,
     liveMemory |-> NoResults, fileUri |-> Undefined]

\* new SentinelSidebarProvider(): no view, nothing cached; a file is open in
\* the editor
SidebarIdle ==
    /\ cachedMemory = NoResults
    /\ cachedFileUri = Undefined
    /\ activeFile = "a.ino"
    /\ view = [resolved |-> FALSE, visible |-> FALSE]
    /\ timers = {}
    /\ posted = NoPost

SessionIdle ==
    /\ version = 0
    /\ inflight = {}
    /\ published = [version |-> 0, diagnostics |-> <<>>, board |-> "none"]
    /\ channel = <<>>
    /\ cachedPinMap = NoResults
    /\ cachedLiveMemory = NoResults

\* the storage as shipped: the three directories with their default files
StorageAsShipped ==
    [exists |-> {"boards", "protocols", "libraries"},
     files |-> [boards |-> {"arduino-uno", "esp32-devkit"},
                protocols |-> {"i2c", "spi"},
                libraries |-> {"arduino-core"}],
     writable |-> TRUE,
     created |-> {}]

\* no isPinValid / isPinCapable query made
NoAnswer == [asked |-> FALSE]

\* new HardwareDatabase(): three empty maps, handleInitialize not yet run
DatabaseIdle ==
    /\ storage = StorageAsShipped
    /\ boards = {}
    /\ protocols = {}
    /\ commonLibraries = {}
    /\ initialized = "pending"
    /\ answers = NoAnswer
    /\ requested = NoBoard

\* the database after handleInitialize has loaded the storage as shipped
DatabaseReady ==
    /\ storage = StorageAsShipped
    /\ boards = StorageAsShipped.files.boards
    /\ protocols = StorageAsShipped.files.protocols
    /\ commonLibraries = StorageAsShipped.files.libraries
    /\ initialized = "fulfilled"
    /\ answers = NoAnswer
    /\ requested = NoBoard

\* new MemoryAnalyzer(): the default board, analyzeMemory not yet called
NoAnalysis == [returned |-> FALSE, threw |-> FALSE]
MemoryIdle ==
    /\ memoryBoard = "arduino:avr:uno"
    /\ failing = {}
    /\ analysis = NoAnalysis

\* new PinTracker(): an empty map, nothing built yet
TrackerIdle ==
    /\ usages = <<>>
    /\ pinMap = <<>>
    /\ annotated = <<>>
    /\ previous = <<>>

InitStripper ==
    /\ pc = "input"
    /\ text = <<>>
    /\ StripperIdle
    /\ TrackerIdle
    /\ ProviderIdle
    /\ SessionIdle
    /\ DatabaseIdle
    /\ MemoryIdle
    /\ SidebarIdle

TypeChar(c) ==
    /\ pc = "input"
    /\ Len(text) < MaxLen
    /\ text' = Append(text, c)
    /\ UNCHANGED <<pc, stripperVars, trackerVars, providerVars, sessionVars, databaseVars, memoryVars, sidebarVars>>

Scan(code) ==
    /\ pc = "input"
    /\ pc' = "scanned"
    /\ subject' = code
    /\ stripped' = strip(code)
    /\ inComment' = [o \in 0..Len(code) |-> isInComment(code, o)]
    /\ UNCHANGED <<text, trackerVars, providerVars, sessionVars, databaseVars, memoryVars, sidebarVars>>

ScanText == Scan(text)

ScanLiteral(q) == Scan(AsLiteral(q, text) \o <<SL, SL, "a">>)

NextStripper ==
    \/ \E c \in Alphabet : TypeChar(c)
    \/ ScanText
    \/ \E q \in {DQ, SQ} : ScanLiteral(q)

SpecStripper == InitStripper /\ [][NextStripper]_vars

(***************************************************************************)
(* Lexical structure of a text, one character at a time: the class of each *)
(* offset is "plain" (outside every comment: code, string and char literal *)
(* characters, the newline ending a line comment), "first" (the first      *)
(* character of a comment opener) or "in" (any later character of a        *)
(* comment, the closing delimiter of a block comment included).            *)
(***************************************************************************)
RECURSIVE LexFrom(_, _, _, _)
LexFrom(code, k, mode, acc) ==
    IF k >= Len(code) THEN acc
    ELSE LET c == At(code, k)
             n == At(code, k + 1)
         IN  CASE mode = "code" ->
                    IF c = DQ THEN LexFrom(code, k + 1, "str", Append(acc, "plain"))
                    ELSE IF c = SQ THEN LexFrom(code, k + 1, "chr", Append(acc, "plain"))
                    ELSE IF c = SL /\ n = SL
                         THEN LexFrom(code, k + 1, "lineOpen", Append(acc, "first"))
                    ELSE IF c = SL /\ n = ST
                         THEN LexFrom(code, k + 1, "blockOpen", Append(acc, "first"))
                    ELSE LexFrom(code, k + 1, "code", Append(acc, "plain"))
               [] mode = "str" ->
                    LexFrom(code, k + 1,
                            IF c = BS THEN "strEsc" ELSE IF c = DQ THEN "code" ELSE "str",
                            Append(acc, "plain"))
               [] mode = "strEsc" -> LexFrom(code, k + 1, "str", Append(acc, "plain"))
               [] mode = "chr" ->
                    LexFrom(code, k + 1,
                            IF c = BS THEN "chrEsc" ELSE IF c = SQ THEN "code" ELSE "chr",
                            Append(acc, "plain"))
               [] mode = "chrEsc" -> LexFrom(code, k + 1, "chr", Append(acc, "plain"))
               [] mode = "lineOpen" -> LexFrom(code, k + 1, "line", Append(acc, "in"))
               [] mode = "line" ->
                    IF c = NL THEN LexFrom(code, k + 1, "code", Append(acc, "plain"))
                    ELSE LexFrom(code, k + 1, "line", Append(acc, "in"))
               [] mode = "blockOpen" -> LexFrom(code, k + 1, "block", Append(acc, "in"))
               [] mode = "block" ->
                    IF c = ST /\ n = SL
                    THEN LexFrom(code, k + 1, "blockClose", Append(acc, "in"))
                    ELSE LexFrom(code, k + 1, "block", Append(acc, "in"))
               [] mode = "blockClose" -> LexFrom(code, k + 1, "code", Append(acc, "in"))

\* Class(code)[o + 1] is the class of offset o
Class(code) == LexFrom(code, 0, "code", <<>>)

Scanned == pc = "scanned"

\* C4: strip(T) has exactly the length of T and a newline at exactly the
\* offsets where T has one, for every mix of comments and literals.
StripKeepsLengthAndNewlines ==
    Scanned =>
        /\ Len(stripped) = Len(subject)
        /\ \A o \in 0..(Len(subject) - 1) :
               (At(stripped, o) = NL) <=> (At(subject, o) = NL)

\* C5: isInComment(T, O) is false at every offset outside every comment
\* (string and char literal characters included) and true at every offset
\* of a line or block comment after the first character of its opener,
\* across newlines and up to the end of the text when a block comment is
\* not terminated.
IsInCommentMatchesLexicalClass ==
    Scanned =>
        LET class == Class(subject)
        IN  \A o \in 0..(Len(subject) - 1) :
                /\ class[o + 1] = "plain" => inComment[o] = FALSE
                /\ class[o + 1] = "in" => inComment[o] = TRUE

\* a block comment that crosses a newline and is never closed, after a
\* string literal: the literal is outside, the rest is inside
IsInCommentWitness ==
    /\ Scanned
    /\ subject = <<DQ, DQ, SL, ST, NL>>
    /\ inComment[1] = FALSE
    /\ inComment[4] = TRUE

\* the subject is the text written as a literal quoted by q, followed by //a
IsLiteralSubject(q) == subject = AsLiteral(q, text) \o <<SL, SL, "a">>

\* C6: inside a string or char literal a backslash and the character after
\* it are consumed together by strip and by isInComment: no offset of the
\* literal is in a comment, strip copies the literal unchanged, and the
\* literal ends at its closing quote (the // after it does open a comment).
EscapesConsumedInLiterals ==
    \A q \in {DQ, SQ} :
        (Scanned /\ IsLiteralSubject(q)) =>
            LET lit == AsLiteral(q, text)
            IN  /\ \A o \in 0..Len(lit) : inComment[o] = FALSE
                /\ SubSeq(stripped, 1, Len(lit)) = lit
                /\ inComment[Len(lit) + 1] = TRUE
                /\ inComment[Len(lit) + 2] = TRUE

\* the literal "a\"//a" (the escaped quote is followed by //)
EscapesWitness ==
    /\ Scanned
    /\ text = <<"a", DQ, SL, SL, "a">>
    /\ IsLiteralSubject(DQ)
    /\ subject = <<DQ, "a", BS, DQ, SL, SL, "a", DQ, SL, SL, "a">>
    /\ inComment[5] = FALSE
    /\ SubSeq(stripped, 1, 8) = SubSeq(subject, 1, 8)

\* the offset of the quote that opens a string literal the text never
\* closes, -1 when the text has none: the text read one character at a time,
\* open being the offset of the quote of the string being read
RECURSIVE UnclosedString(_, _, _, _)
UnclosedString(code, k, mode, open) ==
    IF k >= Len(code) THEN (IF mode = "str" THEN open ELSE -1)
    ELSE LET c == At(code, k)
             n == At(code, k + 1)
         IN  CASE mode = "code" ->
                    IF c = DQ THEN UnclosedString(code, k + 1, "str", k)
                    ELSE IF c = SQ THEN UnclosedString(code, k + 1, "chr", open)
                    ELSE IF c = SL /\ n = SL THEN UnclosedString(code, k + 2, "line", open)
                    ELSE IF c = SL /\ n = ST THEN UnclosedString(code, k + 2, "block", open)
                    ELSE UnclosedString(code, k + 1, "code", open)
               [] mode = "str" ->
                    IF c = BS THEN UnclosedString(code, k + 2, "str", open)
                    ELSE IF c = DQ THEN UnclosedString(code, k + 1, "code", open)
                    ELSE UnclosedString(code, k + 1, "str", open)
               [] mode = "chr" ->
                    IF c = BS THEN UnclosedString(code, k + 2, "chr", open)
                    ELSE IF c = SQ THEN UnclosedString(code, k + 1, "code", open)
                    ELSE UnclosedString(code, k + 1, "chr", open)
               [] mode = "line" ->
                    IF c = NL THEN UnclosedString(code, k + 1, "code", open)
                    ELSE UnclosedString(code, k + 1, "line", open)
               [] mode = "block" ->
                    IF c = ST /\ n = SL THEN UnclosedString(code, k + 2, "code", open)
                    ELSE UnclosedString(code, k + 1, "block", open)

\* C25: from the quote of a string literal that is never closed, strip copies
\* the rest of the text unchanged and isInComment is false at every offset,
\* newlines in the rest included.
UnclosedStringAbsorbsRest ==
    Scanned =>
        LET q == UnclosedString(subject, 0, "code", -1)
            rest == Len(subject) - q
        IN  q >= 0 =>
                /\ Len(stripped) >= rest
                /\ SubSeq(stripped, Len(stripped) - rest + 1, Len(stripped))
                       = SubSeq(subject, q + 1, Len(subject))
                /\ \A o \in q..Len(subject) : inComment[o] = FALSE

\* a string that is never closed and holds a newline and //
UnclosedStringWitness ==
    /\ Scanned
    /\ subject = <<"a", DQ, NL, SL, SL>>
    /\ UnclosedString(subject, 0, "code", -1) = 1
    /\ inComment[4] = FALSE
    /\ inComment[5] = FALSE
    /\ stripped = subject

(***************************************************************************)
(* PinTracker.buildPinMap and detectConflicts                              *)
(***************************************************************************)
UsageKinds ==
    {"digital-output", "digital-input", "pwm", "analog-input", "interrupt",
     "i2c-sda", "i2c-scl", "spi-ss", "spi-mosi", "spi-miso", "spi-sck",
     "serial-rx", "serial-tx"}

\* index of the entry of pin in a Map kept as a sequence of entries, 0 if none
RECURSIVE EntryIndex(_, _, _)
EntryIndex(map, pin, k) ==
    IF k > Len(map) THEN 0
    ELSE IF map[k].pin = pin THEN k
    ELSE EntryIndex(map, pin, k + 1)

\* the for loop of buildPinMap: each usage is pushed on the entry of its pin,
\* a new entry being set at the end of the map when the pin has none
RECURSIVE groupUsages(_, _)
groupUsages(us, map) ==
    IF us = <<>> THEN map
    ELSE LET u == Head(us)
             k == EntryIndex(map, u.pin, 1)
         IN  IF k = 0
             THEN groupUsages(Tail(us), Append(map, [pin |-> u.pin, usages |-> <<u>>]))
             ELSE groupUsages(Tail(us),
                    [map EXCEPT ![k].usages = Append(map[k].usages, u)])

\* types.includes(t), types = usages.map(u => u.type)
Includes(us, t) == \E k \in 1..Len(us) : us[k].type = t

hasOutput(us) == Includes(us, "digital-output") \/ Includes(us, "pwm")
hasInput(us) == Includes(us, "digital-input") \/ Includes(us, "analog-input")
hasInterruptWrite(us) == Includes(us, "interrupt") /\ Includes(us, "digital-output")
hasProtocolDigital(us) ==
    /\ \/ Includes(us, "i2c-sda") \/ Includes(us, "i2c-scl")
       \/ Includes(us, "spi-ss") \/ Includes(us, "spi-mosi")
       \/ Includes(us, "spi-miso") \/ Includes(us, "spi-sck")
    /\ (Includes(us, "digital-output") \/ Includes(us, "digital-input"))
hasSerialDigital(us) ==
    /\ (Includes(us, "serial-rx") \/ Includes(us, "serial-tx"))
    /\ (Includes(us, "digital-output") \/ Includes(us, "digital-input"))

\* the status detectConflicts leaves in `status`: four if statements run in
\* sequence, each overwriting what the one before assigned
pinStatus(us) ==
    LET s0 == "valid"
        s1 == IF hasOutput(us) /\ hasInput(us) THEN "conflict" ELSE s0
        s2 == IF hasInterruptWrite(us) THEN "conflict" ELSE s1
        s3 == IF hasProtocolDigital(us) THEN "conflict" ELSE s2
        s4 == IF hasSerialDigital(us) THEN "warning" ELSE s3
    IN  IF Len(us) > 1 THEN s4 ELSE s0

detectConflicts(map) ==
    [k \in 1..Len(map) |->
        [pin |-> map[k].pin,
         usages |-> map[k].usages,
         status |-> pinStatus(map[k].usages),
         primaryType |-> map[k].usages[1].type]]

(***************************************************************************)
(* The tracker driven by an analysis pass: usages are collected, then the  *)
(* pin map is built from them.                                             *)
(***************************************************************************)
MaxUsages == 3

UsagePins == {5, 18}

AddUsage(pin, type) ==
    /\ pc = "input"
    /\ Len(usages) < MaxUsages
    /\ usages' = Append(usages, [pin |-> pin, type |-> type])
    /\ UNCHANGED <<pc, text, stripperVars, pinMap, annotated, previous, providerVars, sessionVars, databaseVars, memoryVars, sidebarVars>>

\* a Map that keeps what it holds
keepMap(map) == map

\* this.pinMap.clear()
clear(map) == <<>>

\* buildPinMap(usages): clear the map, group, classify
BuildPinMap ==
    /\ pc = "input"
    /\ pc' = "built"
    /\ pinMap' = groupUsages(usages, clear(pinMap))
    /\ annotated' = detectConflicts(pinMap')
    /\ UNCHANGED <<text, stripperVars, usages, previous, providerVars, sessionVars, databaseVars, memoryVars, sidebarVars>>

InitTracker ==
    /\ pc = "input"
    /\ text = <<>>
    /\ StripperIdle
    /\ TrackerIdle
    /\ ProviderIdle
    /\ SessionIdle
    /\ DatabaseIdle
    /\ MemoryIdle
    /\ SidebarIdle

NextTracker ==
    \/ \E pin \in UsagePins, type \in UsageKinds : AddUsage(pin, type)
    \/ BuildPinMap

SpecTracker == InitTracker /\ [][NextTracker]_vars

\* the usage kinds of one pin, from the list handed to buildPinMap
KindsOf(pin) == {usages[k].type : k \in {j \in 1..Len(usages) : usages[j].pin = pin}}

ConflictRule(kinds) ==
    \/ /\ kinds \cap {"digital-output", "pwm"} # {}
       /\ kinds \cap {"digital-input", "analog-input"} # {}
    \/ {"interrupt", "digital-output"} \subseteq kinds
    \/ /\ kinds \cap {"i2c-sda", "i2c-scl", "spi-ss", "spi-mosi",
                      "spi-miso", "spi-sck"} # {}
       /\ kinds \cap {"digital-output", "digital-input"} # {}

WarningRule(kinds) ==
    /\ kinds \cap {"serial-rx", "serial-tx"} # {}
    /\ kinds \cap {"digital-output", "digital-input"} # {}

\* C3: buildPinMap gives each pin the status of the first applicable rule:
\* conflict, otherwise warning, otherwise valid; a pin that satisfies a
\* conflict rule and the serial warning rule is 'conflict'.
StatusIsFirstApplicableRule ==
    pc = "built" =>
        \A k \in 1..Len(annotated) :
            LET kinds == KindsOf(annotated[k].pin)
            IN  annotated[k].status =
                    IF ConflictRule(kinds) THEN "conflict"
                    ELSE IF WarningRule(kinds) THEN "warning"
                    ELSE "valid"

(***************************************************************************)
(* One PinTracker over several passes: buildPinMap is called again with    *)
(* the usages of the next pass, and getPinMap reads the map in between.    *)
(***************************************************************************)
\* the usage kinds of the passes
RebuildKinds == {"digital-output", "digital-input"}

\* getPinLabel(pin): labels[pin] || `Pin ${pin}`
getPinLabel(pin) ==
    CASE pin = 5 -> "D5 (PWM)"
      [] pin = 18 -> "A4 (SDA)"
      [] OTHER -> <<"Pin ", pin>>

\* getPinMap(): one record per entry of the map, in the map's order
getPinMap(map) ==
    [k \in 1..Len(map) |->
        [pin |-> map[k].pin,
         usages |-> map[k].usages,
         label |-> getPinLabel(map[k].pin)]]

\* the next pass: its usages are collected from an empty list, the tracker
\* is the same object
NextPass ==
    /\ pc = "built"
    /\ pc' = "input"
    /\ previous' = usages
    /\ usages' = <<>>
    /\ UNCHANGED <<text, stripperVars, pinMap, annotated, providerVars, sessionVars,
                   databaseVars, memoryVars, sidebarVars>>

NextRebuild ==
    \/ \E pin \in UsagePins, type \in RebuildKinds : AddUsage(pin, type)
    \/ BuildPinMap
    \/ NextPass

SpecRebuild == InitTracker /\ [][NextRebuild]_vars

\* the positions of us at which a pin occurs for the first time
FirstOccurrences(us) ==
    {k \in 1..Len(us) : \A j \in 1..(k - 1) : us[j].pin # us[k].pin}

\* the k-th of them
FirstOccurrence(us, k) ==
    CHOOSE i \in FirstOccurrences(us) :
        Cardinality({j \in FirstOccurrences(us) : j <= i}) = k

\* the usages of us on pin, in the order of us
OnPin(us, pin) == SelectSeq(us, LAMBDA u : u.pin = pin)

\* records holds one record per pin of us, in order of first occurrence, each
\* with exactly the usages of us on its pin
GroupedByPin(records, us) ==
    /\ Len(records) = Cardinality(FirstOccurrences(us))
    /\ \A k \in 1..Len(records) :
          /\ records[k].pin = us[FirstOccurrence(us, k)].pin
          /\ records[k].usages = OnPin(us, records[k].pin)

\* C23: whatever buildPinMap was given before, the records it returns and
\* the records of getPinMap hold exactly the usages of this call, grouped by
\* pin in order of first occurrence.
BuildReturnsOnlyItsUsages ==
    pc = "built" =>
        /\ GroupedByPin(annotated, usages)
        /\ GroupedByPin(getPinMap(pinMap), usages)

\* a call whose usages leave out a pin the call before was given
RebuildWitness ==
    /\ pc = "built"
    /\ usages # <<>>
    /\ \E j \in 1..Len(previous) :
          \A k \in 1..Len(usages) : usages[k].pin # previous[j].pin

(***************************************************************************)
(* String literals of the validators                                       *)
(***************************************************************************)
S_beginTransmission ==
    <<"b", "e", "g", "i", "n", "T", "r", "a", "n", "s", "m", "i", "s", "s",
      "i", "o", "n">>
S_requestFrom ==
    <<"r", "e", "q", "u", "e", "s", "t", "F", "r", "o", "m">>
S_0x ==
    <<"0", "x">>
S_WireDot ==
    <<"W", "i", "r", "e", ".">>
S_write ==
    <<"w", "r", "i", "t", "e">>
S_read ==
    <<"r", "e", "a", "d">>
S_WireBegin ==
    <<"W", "i", "r", "e", ".", "b", "e", "g", "i", "n">>
S_SPIDot ==
    <<"S", "P", "I", ".">>
S_SPIBegin ==
    <<"S", "P", "I", ".", "b", "e", "g", "i", "n">>
S_SPITransfer ==
    <<"S", "P", "I", ".", "t", "r", "a", "n", "s", "f", "e", "r">>
S_SPIBeginTransaction ==
    <<"S", "P", "I", ".", "b", "e", "g", "i", "n", "T", "r", "a", "n", "s",
      "a", "c", "t", "i", "o", "n">>
S_SerialDot ==
    <<"S", "e", "r", "i", "a", "l", ".">>
S_SerialBegin ==
    <<"S", "e", "r", "i", "a", "l", ".", "b", "e", "g", "i", "n">>
S_pinMode ==
    <<"p", "i", "n", "M", "o", "d", "e">>
S_digitalWrite ==
    <<"d", "i", "g", "i", "t", "a", "l", "W", "r", "i", "t", "e">>
S_attachInterrupt ==
    <<"a", "t", "t", "a", "c", "h", "I", "n", "t", "e", "r", "r", "u", "p",
      "t">>
S_digitalPinToInterrupt ==
    <<"d", "i", "g", "i", "t", "a", "l", "P", "i", "n", "T", "o", "I", "n",
      "t", "e", "r", "r", "u", "p", "t">>
S_A ==
    <<"A">>
S_INPUT ==
    <<"I", "N", "P", "U", "T">>
S_ANALOG ==
    <<"A", "N", "A", "L", "O", "G">>
S_I2C_SDA ==
    <<"I", "2", "C", "_", "S", "D", "A">>
S_I2C_SCL ==
    <<"I", "2", "C", "_", "S", "C", "L">>
S_WireBeginCall ==
    <<"W", "i", "r", "e", ".", "b", "e", "g", "i", "n", "(", ")">>

(***************************************************************************)
(* HardwareDatabase: the descriptors createDefaultBoards writes and the    *)
(* current board.  currentBoard is a board id, NoBoard for null, or         *)
(* Undefined when boards.get found nothing.                                *)
(***************************************************************************)

\* the Arduino Uno descriptor
ArduinoUno ==
    [name |-> "Arduino Uno",
     pins |-> [digital |-> 0..13,
               analog |-> 14..19,
               pwm |-> {3, 5, 6, 9, 10, 11},
               interrupts |-> {2, 3}],
     spi |-> <<10, 11, 12, 13>>,
     maxStackDepth |-> 1500]

\* the ESP32 DevKit descriptor
ESP32DevKit ==
    [name |-> "ESP32 DevKit",
     pins |-> [digital |-> (0..5) \cup (12..19) \cup {21, 22, 23, 25, 26, 27, 32, 33},
               analog |-> {32, 33, 34, 35, 36, 39},
               pwm |-> (0..5) \cup (12..19) \cup {21, 22, 23, 25, 26, 27},
               touch |-> {0, 2, 4, 12, 13, 14, 15, 27, 32, 33}],
     spi |-> <<18, 19, 23, 5>>,
     maxStackDepth |-> 8000]

\* the board ids the settings name, and the descriptor stored under an id
BoardIds == {"arduino-uno"}
getBoard(boardId) == IF boardId = "esp32-devkit" THEN ESP32DevKit ELSE ArduinoUno

\* map.get(key) on a map whose keys are ids
get(map, key) == IF key \in map THEN key ELSE Undefined

\* a currentBoard that is neither null nor undefined
isLoaded(board) == board \notin {NoBoard, Undefined}

\* pins && pins.includes(pin)
pinsInclude(pins, type, pin) ==
    IF type \in DOMAIN pins THEN pin \in pins[type] ELSE Undefined

\* isPinValid(pin, type) and isPinCapable(pin, capability)
isPinValidAlways(board, pin, type) == TRUE

isPinValid(board, pin, type) ==
    IF ~isLoaded(board) THEN FALSE
    ELSE pinsInclude(getBoard(board).pins, type, pin)

isPinCapable(board, pin, capability) ==
    IF ~isLoaded(board) THEN FALSE
    ELSE pinsInclude(getBoard(board).pins, capability, pin)

(***************************************************************************)
(* Diagnostics                                                             *)
(***************************************************************************)
\* DiagnosticSeverity of vscode-languageserver
SeverityError == 1
SeverityWarning == 2
SeverityInformation == 3

\* what a message interpolates: previousUsage.func, previousUsage.mode and
\* previousUsage.line + 1; empty and 0 when the message has none of them
NoRef == [func |-> <<>>, mode |-> <<>>, line |-> 0]

\* a diagnostic whose range starts at (line, character) and ends length
\* characters later on the same line
Diagnostic(code, severity, line, character, length, ref) ==
    [code |-> code,
     severity |-> severity,
     range |-> [start |-> [line |-> line, character |-> character],
                end |-> [line |-> line, character |-> character + length]],
     ref |-> ref]

\* getRange(document, line, startChar, length)
getRange(line, startChar, length) ==
    [start |-> [line |-> line, character |-> startChar],
     end |-> [line |-> line, character |-> startChar + length]]

(***************************************************************************)
(* validateI2CUsage                                                        *)
(***************************************************************************)
\* /(?:beginTransmission|requestFrom)\s*\(\s*0x([0-9A-Fa-f]+)/ tried at i
matchAddress(t, i) ==
    LET n == IF StartsWithAt(t, i, S_beginTransmission) THEN Len(S_beginTransmission)
             ELSE IF StartsWithAt(t, i, S_requestFrom) THEN Len(S_requestFrom)
             ELSE 0
        a == skipWs(t, i + n)
        b == skipWs(t, a + 1)
        e == TakeWhile(IsHex, t, b + 2)
    IN  IF n = 0 \/ At(t, a) # "(" \/ ~StartsWithAt(t, b, S_0x) \/ e = b + 2
        THEN NoMatch
        ELSE [ok |-> TRUE, index |-> i, end |-> e,
              all |-> Substring(t, i, e), g1 |-> Substring(t, b + 2, e)]

\* addressPattern.exec(text) with lastIndex = from
execAddress(t, from) == leftmost(matchAddress, t, from)

\* the class the if chain gives an address: the reserved ranges first, then
\* out of range, then the valid addresses
isReservedLowNever(address) == FALSE
isReservedLow(address) == address >= 0 /\ address <= 7
isReservedHigh(address) == address >= 120 /\ address <= 127
isOutOfRange(address) == address > 127

\* usedAddresses.has(address)
isDuplicateAddressNever(usedAddresses, address) == FALSE
isDuplicateAddress(usedAddresses, address) == address \in usedAddresses

\* the body of the while loop for the match m, then the rest of the loop
RECURSIVE i2cAddressLoop(_, _, _, _)
i2cAddressMatch(t, usedAddresses, diagnostics, m) ==
    IF ~m.ok THEN diagnostics
    ELSE IF isInComment(t, m.index)
    THEN i2cAddressLoop(t, m.end, usedAddresses, diagnostics)
    ELSE
      LET address == parseHex(m.g1)
          hexStart == indexOf(m.all, S_0x \o m.g1)
          addressIndex == m.index + hexStart
          pos == positionAt(t, addressIndex)
          len == Len(S_0x \o m.g1)
          at(code, severity) ==
              Diagnostic(code, severity, pos.line, pos.character, len, NoRef)
      IN  IF isReservedLow(address)
          THEN i2cAddressLoop(t, m.end, usedAddresses,
                 Append(diagnostics, at("reserved-i2c-address", SeverityError)))
          ELSE IF isReservedHigh(address)
          THEN i2cAddressLoop(t, m.end, usedAddresses,
                 Append(diagnostics, at("reserved-i2c-address", SeverityError)))
          ELSE IF isOutOfRange(address)
          THEN i2cAddressLoop(t, m.end, usedAddresses,
                 Append(diagnostics, at("invalid-i2c-address", SeverityError)))
          ELSE i2cAddressLoop(t, m.end, usedAddresses \cup {address},
                 IF isDuplicateAddress(usedAddresses, address)
                 THEN Append(diagnostics,
                             at("duplicate-i2c-address", SeverityInformation))
                 ELSE diagnostics)

\* while ((match = addressPattern.exec(text)) !== null) { ... }
i2cAddressLoop(t, from, usedAddresses, diagnostics) ==
    i2cAddressMatch(t, usedAddresses, diagnostics, execAddress(t, from))

\* /Wire\.(?:beginTransmission|requestFrom|write|read)/ tried at i
matchWireUse(t, i) ==
    LET j == i + Len(S_WireDot)
        n == IF StartsWithAt(t, j, S_beginTransmission) THEN Len(S_beginTransmission)
             ELSE IF StartsWithAt(t, j, S_requestFrom) THEN Len(S_requestFrom)
             ELSE IF StartsWithAt(t, j, S_write) THEN Len(S_write)
             ELSE IF StartsWithAt(t, j, S_read) THEN Len(S_read)
             ELSE 0
    IN  IF StartsWithAt(t, i, S_WireDot) /\ n > 0
        THEN [ok |-> TRUE, index |-> i, end |-> j + n, all |-> Substring(t, i, j + n)]
        ELSE NoMatch

execWireUse(t, from) == leftmost(matchWireUse, t, from)

\* /name\s*\(/.test(text): name followed by optional white space and (
RECURSIVE testCall(_, _, _)
testCall(t, name, from) ==
    LET i == indexOfFrom(t, name, from)
    IN  IF i < 0 THEN FALSE
        ELSE IF At(t, skipWs(t, i + Len(name))) = "(" THEN TRUE
        ELSE testCall(t, name, i + 1)

\* /prefix\w+/.test(text): prefix followed by at least one word character
RECURSIVE testMember(_, _, _)
testMember(t, prefix, from) ==
    LET i == indexOfFrom(t, prefix, from)
    IN  IF i < 0 THEN FALSE
        ELSE IF IsWord(At(t, i + Len(prefix))) THEN TRUE
        ELSE testMember(t, prefix, i + 1)

\* the missing Wire.begin() check at the end of validateI2CUsage, wireMatch
\* being text.match(/Wire\.(?:beginTransmission|requestFrom|write|read)/)
wireBeginCheck(t, diagnostics, wireMatch) ==
    LET usesWire == wireMatch.ok
        hasWireBegin == testCall(t, S_WireBegin, 0)
    IN  IF usesWire /\ ~hasWireBegin
        THEN LET wireIndex == indexOf(t, wireMatch.all)
                 pos == positionAt(t, wireIndex)
             IN  Append(diagnostics,
                        Diagnostic("missing-wire-begin", SeverityError,
                                   pos.line, pos.character, Len(wireMatch.all), NoRef))
        ELSE diagnostics

missingWireBegin(t, diagnostics) ==
    wireBeginCheck(t, diagnostics, execWireUse(t, 0))

validateI2CUsage(t, diagnostics) ==
    missingWireBegin(t, i2cAddressLoop(t, 0, {}, diagnostics))

(***************************************************************************)
(* validateSPIUsage, validateSerialUsage, validateProtocolConfiguration    *)
(***************************************************************************)
\* a diagnostic at getRange(document, 0, 0, 1)
AtDocumentStart(code, severity) ==
    [code |-> code, severity |-> severity, range |-> getRange(0, 0, 1), ref |-> NoRef]

validateSPIUsage(t, diagnostics) ==
    LET usesSPI == testMember(t, S_SPIDot, 0)
        hasSPIBegin == testCall(t, S_SPIBegin, 0)
        hasTransfer == includes(t, S_SPITransfer)
        hasTransaction == includes(t, S_SPIBeginTransaction)
        d1 == IF usesSPI /\ ~hasSPIBegin
              THEN Append(diagnostics, AtDocumentStart("missing-spi-begin", SeverityError))
              ELSE diagnostics
    IN  IF hasTransfer /\ ~hasTransaction
        THEN Append(d1, AtDocumentStart("missing-spi-transaction", SeverityWarning))
        ELSE d1

validateSerialUsage(t, diagnostics) ==
    LET usesSerial == testMember(t, S_SerialDot, 0)
        hasSerialBegin == testCall(t, S_SerialBegin, 0)
    IN  IF usesSerial /\ ~hasSerialBegin
        THEN Append(diagnostics, AtDocumentStart("missing-serial-begin", SeverityWarning))
        ELSE diagnostics

validateProtocolConfiguration(t) ==
    validateSerialUsage(t, validateSPIUsage(t, validateI2CUsage(t, <<>>)))

(***************************************************************************)
(* validatePinUsage                                                        *)
(***************************************************************************)
\* usedPins: a Map from pin to {mode, line, func}
hasNever(map, key) == FALSE
has(map, key) == key \in DOMAIN map
set(map, key, value) ==
    [k \in DOMAIN map \cup {key} |-> IF k = key THEN value ELSE map[k]]

\* /pinMode\s*\(\s*([A-Z]?\d+)\s*,\s*(\w+)\s*\)/ tried at i
matchPinMode(t, i) ==
    LET a == skipWs(t, i + Len(S_pinMode))
        b == skipWs(t, a + 1)
        c == skipOne(IsUpper, t, b)
        d == TakeWhile(IsDigit, t, c)
        e == skipWs(t, d)
        f == skipWs(t, e + 1)
        g == TakeWhile(IsWord, t, f)
        h == skipWs(t, g)
    IN  IF /\ StartsWithAt(t, i, S_pinMode)
           /\ At(t, a) = "("
           /\ d > c
           /\ At(t, e) = ","
           /\ g > f
           /\ At(t, h) = ")"
        THEN [ok |-> TRUE, index |-> i, end |-> h + 1, all |-> Substring(t, i, h + 1),
              g1 |-> Substring(t, b, d), g2 |-> Substring(t, f, g)]
        ELSE NoMatch

execPinMode(t, from) == leftmost(matchPinMode, t, from)

\* pinStr.startsWith('A') ? 14 + parseInt(pinStr.substring(1)) : parseInt(pinStr)
pinOf(pinStr) ==
    IF Head(pinStr) = "A" THEN 14 + parseInt(Tail(pinStr)) ELSE parseInt(pinStr)

\* what usedPins.set(pin, ...) stores at the end of a pinMode iteration: the
\* mode and line of the call just seen
storePinUsage(usedPins, pin, mode, line) ==
    set(usedPins, pin, [mode |-> mode, line |-> line, func |-> <<>>])

\* the body of the while loop for the match m, then the rest of the loop;
\* yields usedPins and diagnostics
RECURSIVE pinModeLoop(_, _, _, _, _)
pinModeMatch(t, board, usedPins, diagnostics, m) ==
    IF ~m.ok THEN [usedPins |-> usedPins, diagnostics |-> diagnostics]
    ELSE IF isInComment(t, m.index)
    THEN pinModeLoop(t, board, m.end, usedPins, diagnostics)
    ELSE
      LET pin == pinOf(m.g1)
          mode == m.g2
          pos == positionAt(t, m.index)
          at(code, ref) ==
              Diagnostic(code, SeverityError, pos.line, pos.character, Len(m.all), ref)
      IN  IF isLoaded(board) /\ ~isPinValid(board, pin, "digital")
          THEN pinModeLoop(t, board, m.end, usedPins,
                           Append(diagnostics, at("invalid-pin", NoRef)))
          ELSE
            LET previousUsage == usedPins[pin]
                d1 == IF has(usedPins, pin)
                      THEN Append(diagnostics,
                             at("pin-conflict",
                                IF previousUsage.func # <<>>
                                THEN [func |-> previousUsage.func,
                                      mode |-> previousUsage.mode, line |-> 0]
                                ELSE [func |-> <<>>,
                                      mode |-> previousUsage.mode,
                                      line |-> previousUsage.line + 1]))
                      ELSE diagnostics
            IN  pinModeLoop(t, board, m.end,
                            storePinUsage(usedPins, pin, mode, pos.line),
                            IF isLoaded(board) /\ mode = S_ANALOG
                               /\ ~isPinCapable(board, pin, "analog")
                            THEN Append(d1, at("invalid-pin-mode", NoRef))
                            ELSE d1)

\* while ((match = pinUsagePattern.exec(text)) !== null) { ... }
pinModeLoop(t, board, from, usedPins, diagnostics) ==
    pinModeMatch(t, board, usedPins, diagnostics, execPinMode(t, from))

\* /digitalWrite\s*\(\s*(\d+)\s*,/ tried at i
matchDigitalWrite(t, i) ==
    LET a == skipWs(t, i + Len(S_digitalWrite))
        b == skipWs(t, a + 1)
        d == TakeWhile(IsDigit, t, b)
        e == skipWs(t, d)
    IN  IF /\ StartsWithAt(t, i, S_digitalWrite)
           /\ At(t, a) = "("
           /\ d > b
           /\ At(t, e) = ","
        THEN [ok |-> TRUE, index |-> i, end |-> e + 1, all |-> Substring(t, i, e + 1),
              g1 |-> Substring(t, b, d)]
        ELSE NoMatch

execDigitalWrite(t, from) == leftmost(matchDigitalWrite, t, from)

RECURSIVE digitalWriteLoop(_, _, _, _)
digitalWriteMatch(t, usedPins, diagnostics, m) ==
    IF ~m.ok THEN diagnostics
    ELSE IF isInComment(t, m.index)
    THEN digitalWriteLoop(t, m.end, usedPins, diagnostics)
    ELSE
      LET pin == parseInt(m.g1)
          pos == positionAt(t, m.index)
          at(code) ==
              Diagnostic(code, SeverityWarning, pos.line, pos.character,
                         Len(m.all), NoRef)
      IN  digitalWriteLoop(t, m.end, usedPins,
            IF ~has(usedPins, pin) THEN Append(diagnostics, at("missing-pin-mode"))
            ELSE IF usedPins[pin].mode = S_INPUT
            THEN Append(diagnostics, at("write-to-input-pin"))
            ELSE diagnostics)

\* while ((match = digitalWritePattern.exec(text)) !== null) { ... }
digitalWriteLoop(t, from, usedPins, diagnostics) ==
    digitalWriteMatch(t, usedPins, diagnostics, execDigitalWrite(t, from))

\* /attachInterrupt\s*\(\s*digitalPinToInterrupt\s*\(\s*(\d+)\s*\)/ tried at i
matchAttachInterrupt(t, i) ==
    LET a == skipWs(t, i + Len(S_attachInterrupt))
        b == skipWs(t, a + 1)
        c == skipWs(t, b + Len(S_digitalPinToInterrupt))
        d == skipWs(t, c + 1)
        e == TakeWhile(IsDigit, t, d)
        f == skipWs(t, e)
    IN  IF /\ StartsWithAt(t, i, S_attachInterrupt)
           /\ At(t, a) = "("
           /\ StartsWithAt(t, b, S_digitalPinToInterrupt)
           /\ At(t, c) = "("
           /\ e > d
           /\ At(t, f) = ")"
        THEN [ok |-> TRUE, index |-> i, end |-> f + 1, all |-> Substring(t, i, f + 1),
              g1 |-> Substring(t, d, e)]
        ELSE NoMatch

execAttachInterrupt(t, from) == leftmost(matchAttachInterrupt, t, from)

RECURSIVE attachInterruptLoop(_, _, _, _)
attachInterruptMatch(t, usedPins, diagnostics, m) ==
    IF ~m.ok THEN diagnostics
    ELSE IF isInComment(t, m.index)
    THEN attachInterruptLoop(t, m.end, usedPins, diagnostics)
    ELSE
      LET pin == parseInt(m.g1)
          pos == positionAt(t, m.index)
      IN  attachInterruptLoop(t, m.end, usedPins,
            IF has(usedPins, pin)
            THEN Append(diagnostics,
                   Diagnostic("pin-conflict-interrupt", SeverityError,
                              pos.line, pos.character, Len(m.all),
                              [func |-> <<>>, mode |-> usedPins[pin].mode,
                               line |-> usedPins[pin].line + 1]))
            ELSE diagnostics)

\* while ((match = attachInterruptPattern.exec(text)) !== null) { ... }
attachInterruptLoop(t, from, usedPins, diagnostics) ==
    attachInterruptMatch(t, usedPins, diagnostics, execAttachInterrupt(t, from))

\* validateSPIPinConflicts: spiPins.forEach over the pins of the board's SPI
RECURSIVE spiPinLoop(_, _, _)
spiPinLoop(spiPins, usedPins, diagnostics) ==
    IF spiPins = <<>> THEN diagnostics
    ELSE spiPinLoop(Tail(spiPins), usedPins,
           IF has(usedPins, Head(spiPins))
           THEN Append(diagnostics,
                  [code |-> "spi-pin-conflict", severity |-> SeverityWarning,
                   range |-> getRange(usedPins[Head(spiPins)].line, 0, 1),
                   ref |-> NoRef])
           ELSE diagnostics)

validateSPIPinConflicts(t, board, diagnostics, usedPins) ==
    IF ~isLoaded(board) THEN diagnostics
    ELSE IF includes(t, S_SPIBegin)
    THEN spiPinLoop(getBoard(board).spi, usedPins, diagnostics)
    ELSE diagnostics

\* the pins Wire.begin() reserves, when its first occurrence is no comment
wirePins(t) ==
    IF includes(t, S_WireBegin) /\ ~isInComment(t, indexOf(t, S_WireBegin))
    THEN set(set(<<>>, 18, [mode |-> S_I2C_SDA, line |-> -1, func |-> S_WireBeginCall]),
             19, [mode |-> S_I2C_SCL, line |-> -1, func |-> S_WireBeginCall])
    ELSE <<>>

\* what follows the pinMode loop, p being its usedPins and diagnostics
afterPinModes(t, board, p) ==
    validateSPIPinConflicts(t, board,
        attachInterruptLoop(t, 0, p.usedPins,
            digitalWriteLoop(t, 0, p.usedPins, p.diagnostics)),
        p.usedPins)

validatePinUsage(t, board) ==
    afterPinModes(t, board, pinModeLoop(t, board, 0, wirePins(t), <<>>))

(***************************************************************************)
(* validateInterruptUsage                                                  *)
(***************************************************************************)
\* text.substring(0, index).split('\n').length - 1
lineOf(t, index) == countNewlines(t, index)

RECURSIVE interruptLoop(_, _, _, _)
interruptMatch(t, board, diagnostics, m) ==
    IF ~m.ok THEN diagnostics
    ELSE interruptLoop(t, board, m.end,
           IF parseInt(m.g1) \notin getBoard(board).pins.interrupts
           THEN Append(diagnostics,
                  [code |-> "invalid-interrupt-pin", severity |-> SeverityError,
                   range |-> getRange(lineOf(t, m.index), m.index, Len(m.all)),
                   ref |-> NoRef])
           ELSE diagnostics)

\* while ((match = interruptPattern.exec(text)) !== null) { ... }
interruptLoop(t, board, from, diagnostics) ==
    interruptMatch(t, board, diagnostics, execAttachInterrupt(t, from))

\* if (!board || !board.pins.interrupts) return diagnostics;
validateInterruptUsage(t, board) ==
    IF ~isLoaded(board) THEN <<>>
    ELSE IF "interrupts" \notin DOMAIN getBoard(board).pins THEN <<>>
    ELSE interruptLoop(t, board, 0, <<>>)

(***************************************************************************)
(* validateStackUsage                                                      *)
(***************************************************************************)
S_char == <<"c", "h", "a", "r">>
S_int == <<"i", "n", "t">>
S_uint8_t == <<"u", "i", "n", "t", "8", "_", "t">>
S_uint16_t == <<"u", "i", "n", "t", "1", "6", "_", "t">>
S_uint32_t == <<"u", "i", "n", "t", "3", "2", "_", "t">>
S_byte == <<"b", "y", "t", "e">>

\* (?:char|int|uint8_t|uint16_t|uint32_t|byte) tried at i: the offset after
\* the alternative that matches, the alternatives taken in order; -1 if none
arrayTypeEnd(t, i) ==
    IF StartsWithAt(t, i, S_char) THEN i + Len(S_char)
    ELSE IF StartsWithAt(t, i, S_int) THEN i + Len(S_int)
    ELSE IF StartsWithAt(t, i, S_uint8_t) THEN i + Len(S_uint8_t)
    ELSE IF StartsWithAt(t, i, S_uint16_t) THEN i + Len(S_uint16_t)
    ELSE IF StartsWithAt(t, i, S_uint32_t) THEN i + Len(S_uint32_t)
    ELSE IF StartsWithAt(t, i, S_byte) THEN i + Len(S_byte)
    ELSE -1

\* /(?:char|int|uint8_t|uint16_t|uint32_t|byte)\s+\w+\[\s*(\d+)\s*\]/ tried
\* at i
matchLargeArray(t, i) ==
    LET a == arrayTypeEnd(t, i)
        b == skipWs(t, a)
        c == TakeWhile(IsWord, t, b)
        d == skipWs(t, c + 1)
        e == TakeWhile(IsDigit, t, d)
        f == skipWs(t, e)
    IN  IF /\ a >= 0
           /\ b > a
           /\ c > b
           /\ At(t, c) = "["
           /\ e > d
           /\ At(t, f) = "]"
        THEN [ok |-> TRUE, index |-> i, end |-> f + 1, all |-> Substring(t, i, f + 1),
              g1 |-> Substring(t, d, e)]
        ELSE NoMatch

execLargeArray(t, from) == leftmost(matchLargeArray, t, from)

\* bytesPerElement, from the matched text (the variable's name included)
bytesPerElement(all) ==
    IF includes(all, S_int) /\ ~includes(all, S_uint8_t)
    THEN IF includes(all, S_uint16_t) THEN 2
         ELSE IF includes(all, S_uint32_t) THEN 4
         ELSE 2
    ELSE 1

\* the diagnostic of one array: totalBytes > maxStackDepth * 0.5, else
\* totalBytes > maxStackDepth * 0.25, else none
arrayDiagnostics(t, maxStackDepth, m, totalBytes) ==
    IF 2 * totalBytes > maxStackDepth
    THEN <<[code |-> "stack-overflow-risk", severity |-> SeverityWarning,
            range |-> getRange(lineOf(t, m.index), m.index, Len(m.all)),
            ref |-> NoRef]>>
    ELSE IF 4 * totalBytes > maxStackDepth
    THEN <<[code |-> "stack-usage-info", severity |-> SeverityInformation,
            range |-> getRange(lineOf(t, m.index), m.index, Len(m.all)),
            ref |-> NoRef]>>
    ELSE <<>>

RECURSIVE largeArrayLoop(_, _, _, _)
largeArrayMatch(t, maxStackDepth, diagnostics, m) ==
    IF ~m.ok THEN diagnostics
    ELSE largeArrayLoop(t, maxStackDepth, m.end,
           diagnostics \o arrayDiagnostics(t, maxStackDepth, m,
                                           parseInt(m.g1) * bytesPerElement(m.all)))

\* while ((match = largeArrayPattern.exec(text)) !== null) { ... }
largeArrayLoop(t, maxStackDepth, from, diagnostics) ==
    largeArrayMatch(t, maxStackDepth, diagnostics, execLargeArray(t, from))

\* the offset of the first character c at or after i, or -1
firstAt(t, i, c) ==
    LET hits == {k \in i..(Len(t) - 1) : At(t, k) = c}
    IN  IF hits = {} THEN -1 ELSE Least(hits)

\* the offsets p where [^}]*\1\s*\( can put the second occurrence of the
\* name, the body having opened before offset o: no } lies in o..(p - 1)
recursiveCalls(t, o, name) ==
    {p \in o..(Len(t) - 1) :
        /\ StartsWithAt(t, p, name)
        /\ At(t, skipWs(t, p + Len(name))) = "("
        /\ \A k \in o..(p - 1) : At(t, k) # "}"}

\* /(\w+)\s*\([^)]*\)\s*{[^}]*\1\s*\(/ tried at i: the name runs to the end
\* of the word (what follows it is white space or the parenthesis), the
\* parameter list to the first ), and [^}]* takes the last occurrence it can
matchRecursion(t, i) ==
    LET w == TakeWhile(IsWord, t, i)
        a == skipWs(t, w)
        b == firstAt(t, a + 1, ")")
        c == skipWs(t, b + 1)
        name == Substring(t, i, w)
        calls == recursiveCalls(t, c + 1, name)
    IN  IF /\ w > i
           /\ At(t, a) = "("
           /\ b >= 0
           /\ At(t, c) = "{"
           /\ calls # {}
        THEN LET p == CHOOSE x \in calls : \A y \in calls : y <= x
             IN  [ok |-> TRUE, index |-> i, end |-> skipWs(t, p + Len(name)) + 1,
                  g1 |-> name]
        ELSE NoMatch

execRecursion(t, from) == leftmost(matchRecursion, t, from)

RECURSIVE recursionLoop(_, _, _)
recursionMatch(t, diagnostics, m) ==
    IF ~m.ok THEN diagnostics
    ELSE recursionLoop(t, m.end,
           Append(diagnostics,
                  [code |-> "recursion-warning", severity |-> SeverityWarning,
                   range |-> getRange(lineOf(t, m.index), m.index, Len(m.g1)),
                   ref |-> NoRef]))

\* while ((match = functionPattern.exec(text)) !== null) { ... }
recursionLoop(t, from, diagnostics) ==
    recursionMatch(t, diagnostics, execRecursion(t, from))

\* if (!board || !board.constraints) return diagnostics;
validateStackUsage(t, board) ==
    IF ~isLoaded(board) THEN <<>>
    ELSE IF "maxStackDepth" \notin DOMAIN getBoard(board) THEN <<>>
    ELSE recursionLoop(t, 0, largeArrayLoop(t, getBoard(board).maxStackDepth, 0, <<>>))

(***************************************************************************)
(* validateMemoryAccess                                                    *)
(***************************************************************************)
S_strcpy == <<"s", "t", "r", "c", "p", "y">>
S_strcat == <<"s", "t", "r", "c", "a", "t">>
S_sprintf == <<"s", "p", "r", "i", "n", "t", "f">>
S_gets == <<"g", "e", "t", "s">>
S_malloc == <<"m", "a", "l", "l", "o", "c">>
S_free == <<"f", "r", "e", "e">>
S_calloc == <<"c", "a", "l", "l", "o", "c">>
S_realloc == <<"r", "e", "a", "l", "l", "o", "c">>

\* one of the names, taken in order, then \s*\( , tried at i
matchCallOf(t, i, names) ==
    LET found == {k \in 1..Len(names) : StartsWithAt(t, i, names[k])}
        a == skipWs(t, i + Len(names[Least(found)]))
    IN  IF found # {} /\ At(t, a) = "("
        THEN [ok |-> TRUE, index |-> i, end |-> a + 1, all |-> Substring(t, i, a + 1)]
        ELSE NoMatch

\* /(?:strcpy|strcat|sprintf|gets)\s*\(/ and
\* /(?:malloc|free|calloc|realloc)\s*\(/ tried at i
matchBufferCall(t, i) == matchCallOf(t, i, <<S_strcpy, S_strcat, S_sprintf, S_gets>>)
matchMallocCall(t, i) == matchCallOf(t, i, <<S_malloc, S_free, S_calloc, S_realloc>>)

\* the diagnostics pushed for the matches of one of the two loops
RECURSIVE memoryAccessLoop(_, _, _, _, _)
memoryAccessMatch(t, code, severity, diagnostics, m) ==
    IF ~m.ok THEN diagnostics
    ELSE memoryAccessLoop(t, code, severity, m.end,
           Append(diagnostics,
                  [code |-> code, severity |-> severity,
                   range |-> getRange(lineOf(t, m.index), m.index, Len(m.all)),
                   ref |-> NoRef]))

memoryAccessLoop(t, code, severity, from, diagnostics) ==
    memoryAccessMatch(t, code, severity, diagnostics,
                      IF code = "unsafe-string-function"
                      THEN leftmost(matchBufferCall, t, from)
                      ELSE leftmost(matchMallocCall, t, from))

validateMemoryAccess(t) ==
    memoryAccessLoop(t, "dynamic-allocation", SeverityInformation, 0,
        memoryAccessLoop(t, "unsafe-string-function", SeverityWarning, 0, <<>>))

(***************************************************************************)
(* validateDocument: every validator is started, its promise is given a    *)
(* catch handler that yields [], the promises are awaited together and     *)
(* the arrays are flattened in registration order.  Of the validators the  *)
(* source registers, the five translated above are modelled.               *)
(***************************************************************************)
Validators ==
    <<"validatePinUsage", "validateStackUsage", "validateProtocolConfiguration",
      "validateInterruptUsage", "validateMemoryAccess">>

ValidatorNames == {Validators[k] : k \in 1..Len(Validators)}

\* what the validator returns when nothing throws
runValidator(name, t, board) ==
    CASE name = "validatePinUsage" -> validatePinUsage(t, board)
      [] name = "validateStackUsage" -> validateStackUsage(t, board)
      [] name = "validateMemoryAccess" -> validateMemoryAccess(t)
      [] name = "validateProtocolConfiguration" -> validateProtocolConfiguration(t)
      [] name = "validateInterruptUsage" -> validateInterruptUsage(t, board)

\* the promise of an async validator: rejected when its body throws
Fulfilled(value) == [state |-> "fulfilled", value |-> value]
Rejected == [state |-> "rejected", value |-> <<>>]

\* promise.catch(e => { console.error(...); return []; })
withoutCatch(promise) == promise
catch(promise) ==
    IF promise.state = "rejected" THEN Fulfilled(<<>>) ELSE promise

\* Promise.all: rejected as soon as one promise is, else the values in order
PromiseAll(promises) ==
    IF \E k \in 1..Len(promises) : promises[k].state = "rejected"
    THEN Rejected
    ELSE Fulfilled([k \in 1..Len(promises) |-> promises[k].value])

\* validations.forEach(validation => diagnostics.push(...validation))
RECURSIVE flatten(_)
flatten(arrays) ==
    IF arrays = <<>> THEN <<>> ELSE Head(arrays) \o flatten(Tail(arrays))

\* validateDocument when the validators of `throwing` throw; returned[k] is
\* what validator k returns when it does not
validateDocumentOf(returned, throwing) ==
    LET promises == [k \in 1..Len(Validators) |->
                        catch(IF Validators[k] \in throwing THEN Rejected
                              ELSE Fulfilled(returned[k]))]
        validations == PromiseAll(promises)
    IN  \* try { ... } catch (error) { console.error(...) } return diagnostics
        IF validations.state = "rejected" THEN <<>>
        ELSE flatten(validations.value)

returnedBy(t, board) ==
    [k \in 1..Len(Validators) |-> runValidator(Validators[k], t, board)]

validateDocument(t, board, throwing) ==
    validateDocumentOf(returnedBy(t, board), throwing)

(***************************************************************************)
(* The statements an editor session types.  Beside its characters each     *)
(* snippet records what it is: its kind, the address or pin it names, and  *)
(* the offset and length, within the snippet, of the text a diagnostic     *)
(* about it is placed on (the hex literal of an I2C call, the call         *)
(* otherwise).  For an array declaration arg is its size in bytes, at the  *)
(* element sizes of the provider: 1 for char, byte and uint8_t, 2 for int  *)
(* and uint16_t, 4 for uint32_t.                                           *)
(***************************************************************************)
Snippet(id) ==
  CASE
      id = "i2c07" ->
      [chars |->
        <<"W", "i", "r", "e", ".", "b", "e", "g", "i", "n", "T", "r", "a",
          "n", "s", "m", "i", "s", "s", "i", "o", "n", "(", "0", "x", "0",
          "7", ")", ";", "\n">>,
       kind |-> "i2c", arg |-> 7, at |-> 23, len |-> 4]
    [] id = "i2c78" ->
      [chars |->
        <<"W", "i", "r", "e", ".", "r", "e", "q", "u", "e", "s", "t", "F",
          "r", "o", "m", "(", "0", "x", "7", "8", ",", " ", "1", ")", ";",
          "\n">>,
       kind |-> "i2c", arg |-> 120, at |-> 17, len |-> 4]
    [] id = "i2c7F" ->
      [chars |->
        <<"W", "i", "r", "e", ".", "b", "e", "g", "i", "n", "T", "r", "a",
          "n", "s", "m", "i", "s", "s", "i", "o", "n", "(", "0", "x", "7",
          "F", ")", ";", "\n">>,
       kind |-> "i2c", arg |-> 127, at |-> 23, len |-> 4]
    [] id = "i2c80" ->
      [chars |->
        <<"W", "i", "r", "e", ".", "b", "e", "g", "i", "n", "T", "r", "a",
          "n", "s", "m", "i", "s", "s", "i", "o", "n", "(", "0", "x", "8",
          "0", ")", ";", "\n">>,
       kind |-> "i2c", arg |-> 128, at |-> 23, len |-> 4]
    [] id = "i2c77" ->
      [chars |->
        <<"W", "i", "r", "e", ".", "b", "e", "g", "i", "n", "T", "r", "a",
          "n", "s", "m", "i", "s", "s", "i", "o", "n", "(", "0", "x", "7",
          "7", ")", ";", "\n">>,
       kind |-> "i2c", arg |-> 119, at |-> 23, len |-> 4]
    [] id = "i2c08" ->
      [chars |->
        <<"W", "i", "r", "e", ".", "r", "e", "q", "u", "e", "s", "t", "F",
          "r", "o", "m", "(", " ", "0", "x", "0", "8", ",", " ", "2", ")",
          ";", "\n">>,
       kind |-> "i2c", arg |-> 8, at |-> 18, len |-> 4]
    [] id = "wireWrite" ->
      [chars |->
        <<"W", "i", "r", "e", ".", "w", "r", "i", "t", "e", "(", "1", ")",
          ";", "\n">>,
       kind |-> "wire", arg |-> 0, at |-> 0, len |-> 10]
    [] id = "wireBegin" ->
      [chars |->
        <<"W", "i", "r", "e", ".", "b", "e", "g", "i", "n", "(", ")", ";",
          "\n">>,
       kind |-> "wireBegin", arg |-> 0, at |-> 0, len |-> 10]
    [] id = "spiTransfer" ->
      [chars |->
        <<"S", "P", "I", ".", "t", "r", "a", "n", "s", "f", "e", "r", "(",
          "1", ")", ";", "\n">>,
       kind |-> "spi", arg |-> 0, at |-> 0, len |-> 12]
    [] id = "spiBegin" ->
      [chars |->
        <<"S", "P", "I", ".", "b", "e", "g", "i", "n", "(", ")", ";", "\n">>,
       kind |-> "spiBegin", arg |-> 0, at |-> 0, len |-> 9]
    [] id = "serialPrint" ->
      [chars |->
        <<"S", "e", "r", "i", "a", "l", ".", "p", "r", "i", "n", "t", "l",
          "n", "(", "1", ")", ";", "\n">>,
       kind |-> "serial", arg |-> 0, at |-> 0, len |-> 14]
    [] id = "serialBegin" ->
      [chars |->
        <<"S", "e", "r", "i", "a", "l", ".", "b", "e", "g", "i", "n", "(",
          "9", "6", "0", "0", ")", ";", "\n">>,
       kind |-> "serialBegin", arg |-> 0, at |-> 0, len |-> 12]
    [] id = "pinMode5Out" ->
      [chars |->
        <<"p", "i", "n", "M", "o", "d", "e", "(", "5", ",", " ", "O", "U",
          "T", "P", "U", "T", ")", ";", "\n">>,
       kind |-> "pinMode", arg |-> 5, at |-> 0, len |-> 7]
    [] id = "pinMode5In" ->
      [chars |->
        <<"p", "i", "n", "M", "o", "d", "e", "(", "5", ",", " ", "I", "N",
          "P", "U", "T", ")", ";", "\n">>,
       kind |-> "pinMode", arg |-> 5, at |-> 0, len |-> 7]
    [] id = "pinModeA4" ->
      [chars |->
        <<"p", "i", "n", "M", "o", "d", "e", "(", "A", "4", ",", " ", "I",
          "N", "P", "U", "T", ")", ";", "\n">>,
       kind |-> "pinMode", arg |-> 18, at |-> 0, len |-> 7]
    [] id = "pinMode13" ->
      [chars |->
        <<"p", "i", "n", "M", "o", "d", "e", "(", "1", "3", ",", " ", "O",
          "U", "T", "P", "U", "T", ")", ";", "\n">>,
       kind |-> "pinMode", arg |-> 13, at |-> 0, len |-> 7]
    [] id = "digitalWrite5" ->
      [chars |->
        <<"d", "i", "g", "i", "t", "a", "l", "W", "r", "i", "t", "e", "(",
          "5", ",", " ", "H", "I", "G", "H", ")", ";", "\n">>,
       kind |-> "digitalWrite", arg |-> 5, at |-> 0, len |-> 12]
    [] id = "attach5" ->
      [chars |->
        <<"a", "t", "t", "a", "c", "h", "I", "n", "t", "e", "r", "r", "u",
          "p", "t", "(", "d", "i", "g", "i", "t", "a", "l", "P", "i", "n",
          "T", "o", "I", "n", "t", "e", "r", "r", "u", "p", "t", "(", "5",
          ")", ",", " ", "f", ",", " ", "R", "I", "S", "I", "N", "G", ")",
          ";", "\n">>,
       kind |-> "attachInterrupt", arg |-> 5, at |-> 0, len |-> 15]
    [] id = "lineComment" ->
      [chars |->
        <<"/", "/", " ">>,
       kind |-> "lineComment", arg |-> 0, at |-> 0, len |-> 2]
    [] id = "blockOpen" ->
      [chars |->
        <<"/", "*", " ">>,
       kind |-> "blockOpen", arg |-> 0, at |-> 0, len |-> 2]
    [] id = "blockClose" ->
      [chars |->
        <<"*", "/", " ">>,
       kind |-> "blockClose", arg |-> 0, at |-> 0, len |-> 2]
    [] id = "indent" ->
      [chars |->
        <<" ", " ">>,
       kind |-> "indent", arg |-> 0, at |-> 0, len |-> 1]
    [] id = "newline" ->
      [chars |->
        <<"\n">>,
       kind |-> "newline", arg |-> 0, at |-> 0, len |-> 1]
    [] id = "pinMode99" ->
      [chars |->
        <<"p", "i", "n", "M", "o", "d", "e", "(", "9", "9", ",", " ", "O",
          "U", "T", "P", "U", "T", ")", ";", "\n">>,
       kind |-> "pinMode", arg |-> 99, at |-> 0, len |-> 7]
    [] id = "pinModeD2" ->
      [chars |->
        <<"p", "i", "n", "M", "o", "d", "e", "(", "D", "2", ",", " ", "O",
          "U", "T", "P", "U", "T", ")", ";", "\n">>,
       kind |-> "pinMode", arg |-> NaN, at |-> 0, len |-> 7]
    [] id = "analogReadA0" ->
      [chars |->
        <<"a", "n", "a", "l", "o", "g", "R", "e", "a", "d", "(", "A", "0",
          ")", ";", "\n">>,
       kind |-> "analogRead", arg |-> 14, at |-> 0, len |-> 10]
    [] id = "analogWrite9" ->
      [chars |->
        <<"a", "n", "a", "l", "o", "g", "W", "r", "i", "t", "e", "(", "9",
          ",", " ", "1", ")", ";", "\n">>,
       kind |-> "analogWrite", arg |-> 9, at |-> 0, len |-> 11]
    [] id = "strcpyCall" ->
      [chars |->
        <<"s", "t", "r", "c", "p", "y", "(", "a", ",", " ", "b", ")", ";",
          "\n">>,
       kind |-> "strcpy", arg |-> 0, at |-> 0, len |-> 7]
    [] id = "mallocCall" ->
      [chars |->
        <<"p", " ", "=", " ", "m", "a", "l", "l", "o", "c", "(", "4", ")",
          ";", "\n">>,
       kind |-> "malloc", arg |-> 0, at |-> 4, len |-> 7]
    [] id = "bigBuffer" ->
      [chars |->
        <<"c", "h", "a", "r", " ", "b", "u", "f", "[", "8", "0", "0", "]",
          ";", "\n">>,
       kind |-> "array", arg |-> 800, at |-> 0, len |-> 13]
    [] id = "midInts" ->
      [chars |->
        <<"i", "n", "t", " ", "m", "i", "d", "[", "2", "0", "0", "]", ";",
          "\n">>,
       kind |-> "array", arg |-> 400, at |-> 0, len |-> 12]
    [] id = "smallBuffer" ->
      [chars |->
        <<"c", "h", "a", "r", " ", "t", "m", "p", "[", "1", "0", "]", ";",
          "\n">>,
       kind |-> "array", arg |-> 10, at |-> 0, len |-> 12]
    [] id = "hintBuffer" ->
      [chars |->
        <<"c", "h", "a", "r", " ", "h", "i", "n", "t", "[", "2", "0", "0",
          "]", ";", "\n">>,
       kind |-> "array", arg |-> 200, at |-> 0, len |-> 14]
    [] id = "recursive" ->
      [chars |->
        <<"v", "o", "i", "d", " ", "f", "(", ")", "{", "f", "(", ")", ";",
          "}", "\n">>,
       kind |-> "recursion", arg |-> 0, at |-> 5, len |-> 1]
    [] id = "bigArray" ->
      [chars |->
        <<"i", "n", "t", " ", "a", "[", "2", "0", "0", "0", "]", ";",
          "\n">>,
       kind |-> "global", declares |-> {<<"a">>}, uses |-> {}]
    [] id = "useA" ->
      [chars |->
        <<"a", "[", "0", "]", " ", "=", " ", "1", ";", "\n">>,
       kind |-> "use", declares |-> {}, uses |-> {<<"a">>}]
    [] id = "charBrace" ->
      [chars |->
        <<"c", "h", "a", "r", " ", "c", " ", "=", " ", "'", "{", "'", ";",
          "\n">>,
       kind |-> "global", declares |-> {<<"c">>}, uses |-> {}]
    [] id = "tenInts" ->
      [chars |->
        <<"i", "n", "t", " ", "b", "[", "1", "0", "]", ";", "\n">>,
       kind |-> "global", declares |-> {<<"b">>}, uses |-> {}]
    [] id = "useBC" ->
      [chars |->
        <<"b", "[", "0", "]", " ", "=", " ", "c", ";", "\n">>,
       kind |-> "use", declares |-> {}, uses |-> {<<"b">>, <<"c">>}]
    [] id = "structP" ->
      [chars |->
        <<"s", "t", "r", "u", "c", "t", " ", "P", " ", "{", "i", "n", "t",
          " ", "x", ";", "}", ";", "\n">>,
       kind |-> "struct", declares |-> {}, uses |-> {}]
    [] id = "instanceP" ->
      [chars |->
        <<"P", " ", "p", ";", "\n">>,
       kind |-> "global", declares |-> {<<"p">>}, uses |-> {}]
    [] id = "stringS" ->
      [chars |->
        <<"S", "t", "r", "i", "n", "g", " ", "s", " ", "=", " ", "\"", "/",
          "/", "\"", ";", "\n">>,
       kind |-> "global", declares |-> {<<"s">>}, uses |-> {}]
    [] id = "useS" ->
      [chars |->
        <<"s", " ", "=", " ", "\"", "\"", ";", "\n">>,
       kind |-> "use", declares |-> {}, uses |-> {<<"s">>}]

    [] id = "setupSerial" ->
      [chars |->
        <<"v", "o", "i", "d", " ", "s", "e", "t", "u", "p", "(", ")", "{",
          "S", "e", "r", "i", "a", "l", ".", "b", "e", "g", "i", "n", "(",
          "9", "6", "0", "0", ")", ";", "}", "\n">>,
       kind |-> "serialBegin", arg |-> 0, at |-> 13, len |-> 12]
    [] id = "loopEmpty" ->
      [chars |->
        <<"v", "o", "i", "d", " ", "l", "o", "o", "p", "(", ")", "{", "}",
          "\n">>,
       kind |-> "function", declares |-> {}, uses |-> {}]
    [] id = "reallocCall" ->
      [chars |->
        <<"p", " ", "=", " ", "r", "e", "a", "l", "l", "o", "c", "(", "p",
          ",", " ", "8", ")", ";", "\n">>,
       kind |-> "realloc", arg |-> 0, at |-> 4, len |-> 8]
    [] id = "newCall" ->
      [chars |->
        <<"p", " ", "=", " ", "n", "e", "w", " ", "i", "n", "t", ";", "\n">>,
       kind |-> "new", arg |-> 0, at |-> 4, len |-> 3]
    [] id = "concatCall" ->
      [chars |->
        <<"{", "S", "t", "r", "i", "n", "g", " ", "t", " ", "=", " ", "u",
          " ", "+", " ", "v", ";", "}", "\n">>,
       kind |-> "concat", arg |-> 0, at |-> 1, len |-> 15]
\* the I2C address classes and their boundaries
AddressPalette ==
    {"i2c07", "i2c78", "i2c7F", "i2c80", "i2c77", "lineComment"}
\* repeated valid addresses, in and out of comments
DuplicatePalette ==
    {"i2c77", "i2c08", "lineComment", "blockOpen", "blockClose"}
\* the three buses, used with and without their begin call
BusPalette ==
    {"wireWrite", "spiTransfer", "serialPrint", "wireBegin", "spiBegin",
     "serialBegin", "newline", "indent"}
\* pin configurations
PinPalette ==
    {"pinMode5Out", "pinMode5In", "pinModeA4", "wireBegin", "attach5",
     "i2c07", "lineComment"}
Palettes == {AddressPalette, DuplicatePalette, PinPalette}

\* arrays of each size class, and a function that calls itself
ArrayPalette == {"bigBuffer", "midInts", "smallBuffer", "hintBuffer", "recursive"}
\* calls of the string and heap functions, on any line and at any column
AccessPalette == {"strcpyCall", "mallocCall", "bigBuffer", "recursive", "indent"}
LayoutPalettes == {BusPalette, ArrayPalette, AccessPalette}

\* sketches for the memory analyzer: a large array and the libraries
SizePalette == {"bigArray", "useA", "serialBegin", "wireBegin"}
\* globals of each kind, used and unused
UsagePalette == {"tenInts", "useBC", "structP", "instanceP", "stringS"}
\* initializers that are literals holding a brace or a comment opener
LiteralPalette == {"charBrace", "tenInts", "useBC", "stringS", "useS"}
\* a sketch: its two functions, the serial port, a global and its use
SketchPalette == {"setupSerial", "loopEmpty", "tenInts", "useBC"}
\* heap calls of each kind and String concatenations
HeapPalette == {"mallocCall", "reallocCall", "newCall", "concatCall"}
\* the begin calls of the libraries
LibraryPalette == {"serialBegin", "wireBegin", "spiBegin", "lineComment"}
MemoryPalettes ==
    {SizePalette, UsagePalette, LiteralPalette, SketchPalette, HeapPalette,
     LibraryPalette}

(***************************************************************************)
(* The diagnostic provider applied to a document: the snippets of one      *)
(* palette are typed, a board may be loaded, and validateDocument is       *)
(* called once, with any set of its validators throwing.                   *)
(***************************************************************************)
MaxTyped == 3

\* a provider with no board loaded and an empty document, typed from one of
\* the palettes given
InitProvider(palettes) ==
    /\ pc = "input"
    /\ text = <<>>
    /\ StripperIdle
    /\ TrackerIdle
    /\ typed = <<>>
    /\ palette \in palettes
    /\ currentBoard = NoBoard
    /\ throwers = {}
    /\ outputs = <<>>
    /\ reported = <<>>
    /\ SessionIdle
    /\ DatabaseReady
    /\ MemoryIdle
    /\ SidebarIdle

InitValidate == InitProvider(Palettes)

TypeSnippet(id) ==
    /\ pc = "input"
    /\ Len(typed) < MaxTyped
    /\ typed' = Append(typed, id)
    /\ text' = text \o Snippet(id).chars
    /\ UNCHANGED <<pc, stripperVars, trackerVars, palette, currentBoard,
                   throwers, outputs, reported, sessionVars, databaseVars, memoryVars, sidebarVars>>

\* a loadBoard that keeps the board it has when the store holds none under
\* boardId
loadBoardOrKeep(boardId) ==
    /\ pc = "input"
    /\ requested' = boardId
    /\ currentBoard' = IF boardId \in boards THEN boardId ELSE currentBoard
    /\ UNCHANGED <<pc, text, stripperVars, trackerVars, typed, palette,
                   throwers, outputs, reported, sessionVars, storage, boards, protocols,
                   commonLibraries, initialized, answers, memoryVars, sidebarVars>>

\* hardwareDB.loadBoard(boardId)
loadBoard(boardId) ==
    /\ pc = "input"
    /\ requested' = boardId
    /\ currentBoard' = get(boards, boardId)
    /\ UNCHANGED <<pc, text, stripperVars, trackerVars, typed, palette,
                   throwers, outputs, reported, sessionVars, storage, boards, protocols,
                   commonLibraries, initialized, answers, memoryVars, sidebarVars>>

\* validateDocument(document, settings) with the validators of a set of Fs
\* throwing
validateDocumentThrowing(Fs) ==
    /\ pc = "input"
    /\ pc' = "validated"
    /\ \E r \in {returnedBy(text, currentBoard)}, F \in Fs :
          /\ throwers' = F
          /\ outputs' = r
          /\ reported' = validateDocumentOf(r, F)
    /\ UNCHANGED <<text, stripperVars, trackerVars, typed, palette,
                   currentBoard, sessionVars, databaseVars, memoryVars, sidebarVars>>

ValidateDocument == validateDocumentThrowing(SUBSET ValidatorNames)

NextValidate ==
    \/ \E id \in palette : TypeSnippet(id)
    \/ \E boardId \in BoardIds : loadBoard(boardId)
    \/ ValidateDocument

SpecValidate == InitValidate /\ [][NextValidate]_vars

(***************************************************************************)
(* What the typed snippets say about the text, read off the snippets and   *)
(* not found by scanning: where each snippet starts and whether it lies in *)
(* a comment.                                                              *)
(***************************************************************************)
Validated == pc = "validated"

EndsLine(id) == Snippet(id).chars[Len(Snippet(id).chars)] = NL

RECURSIVE LengthOf(_)
LengthOf(ids) ==
    IF ids = <<>> THEN 0 ELSE Len(Snippet(Head(ids)).chars) + LengthOf(Tail(ids))

\* the line the k-th snippet starts on
LineOfSnippet(k) == Cardinality({j \in 1..(k - 1) : EndsLine(typed[j])})

\* the column the k-th snippet starts at
ColumnOfSnippet(k) ==
    LET breaks == {j \in 1..(k - 1) : EndsLine(typed[j])}
        last == IF breaks = {} THEN 0
                ELSE CHOOSE j \in breaks : \A i \in breaks : i <= j
    IN  LengthOf(SubSeq(typed, last + 1, k - 1))

\* where the k-th snippet, and so the call it makes, starts
CallStart(k) == [line |-> LineOfSnippet(k), character |-> ColumnOfSnippet(k)]

\* where the marked text of the k-th snippet starts
StartOf(k) ==
    [line |-> LineOfSnippet(k),
     character |-> ColumnOfSnippet(k) + Snippet(typed[k]).at]

\* the comment the text is in after the first k snippets
RECURSIVE ModeAfter(_)
ModeAfter(k) ==
    IF k = 0 THEN "code"
    ELSE LET before == ModeAfter(k - 1)
             kind == Snippet(typed[k]).kind
         IN  CASE before = "code" /\ kind = "lineComment" -> "line"
               [] before = "code" /\ kind = "blockOpen" -> "block"
               [] before = "line" /\ EndsLine(typed[k]) -> "code"
               [] before = "block" /\ kind = "blockClose" -> "code"
               [] OTHER -> before

Commented(k) == ModeAfter(k - 1) # "code"

\* the non-commented snippets of the kinds given
Live(kinds) ==
    {k \in 1..Len(typed) : Snippet(typed[k]).kind \in kinds /\ ~Commented(k)}

\* the diagnostics of ds with one of the codes given that start at pos
DiagnosticsAt(ds, codes, pos) ==
    {n \in 1..Len(ds) : ds[n].code \in codes /\ ds[n].range.start = pos}

\* the diagnostics validateProtocolConfiguration and validatePinUsage returned
protocolDiagnostics == outputs[3]
pinDiagnostics == outputs[1]

\* C7: every non-commented beginTransmission(0x..) / requestFrom(0x..) call
\* gets at most one of reserved-i2c-address and invalid-i2c-address: exactly
\* one reserved-i2c-address error (and no invalid-i2c-address) for an address
\* in 0x00-0x07 or 0x78-0x7F, exactly one invalid-i2c-address error for an
\* address above 0x7F, neither for an address in 0x08-0x77.
I2CAddressClassified ==
    Validated =>
      \A k \in Live({"i2c"}) :
        LET address == Snippet(typed[k]).arg
            reserved == DiagnosticsAt(protocolDiagnostics,
                                      {"reserved-i2c-address"}, StartOf(k))
            invalid == DiagnosticsAt(protocolDiagnostics,
                                     {"invalid-i2c-address"}, StartOf(k))
            errors(ns) == \A n \in ns : protocolDiagnostics[n].severity = SeverityError
        IN  /\ Cardinality(reserved) + Cardinality(invalid) <= 1
            /\ errors(reserved) /\ errors(invalid)
            /\ address \in (0..7) \cup (120..127) =>
                 Cardinality(reserved) = 1 /\ invalid = {}
            /\ address > 127 => Cardinality(invalid) = 1
            /\ address \in 8..119 => reserved = {} /\ invalid = {}

\* a reserved, an out-of-range and a valid address in one text
I2CAddressWitness ==
    /\ Validated
    /\ typed = <<"i2c78", "i2c80", "i2c77">>
    /\ DiagnosticsAt(protocolDiagnostics, {"reserved-i2c-address"}, StartOf(1)) # {}
    /\ DiagnosticsAt(protocolDiagnostics, {"invalid-i2c-address"}, StartOf(2)) # {}

\* C8: of the non-commented calls that use one valid address (0x08-0x77), the
\* first gets no address diagnostic and every later one gets exactly one
\* duplicate-i2c-address Information diagnostic whose range is that call's
\* hex literal.
DuplicateAddressOnLaterUse ==
    Validated =>
      \A k \in Live({"i2c"}) :
        LET address == Snippet(typed[k]).arg
            earlier == {j \in Live({"i2c"}) :
                          j < k /\ Snippet(typed[j]).arg = address}
            here == DiagnosticsAt(protocolDiagnostics,
                                  {"reserved-i2c-address", "invalid-i2c-address",
                                   "duplicate-i2c-address"}, StartOf(k))
        IN  address \in 8..119 =>
              IF earlier = {} THEN here = {}
              ELSE /\ Cardinality(here) = 1
                   /\ \A n \in here :
                        /\ protocolDiagnostics[n].code = "duplicate-i2c-address"
                        /\ protocolDiagnostics[n].severity = SeverityInformation
                        /\ protocolDiagnostics[n].range.end =
                             [line |-> StartOf(k).line,
                              character |-> StartOf(k).character + Snippet(typed[k]).len]

\* one address used three times: the second and the third use are reported
DuplicateAddressWitness ==
    /\ Validated
    /\ typed = <<"i2c08", "i2c08", "i2c08">>
    /\ DiagnosticsAt(protocolDiagnostics, {"duplicate-i2c-address"}, StartOf(1)) = {}
    /\ DiagnosticsAt(protocolDiagnostics, {"duplicate-i2c-address"}, StartOf(2)) # {}
    /\ DiagnosticsAt(protocolDiagnostics, {"duplicate-i2c-address"}, StartOf(3)) # {}

\* the buses, the snippets that call them and the diagnostic for a missing begin
Buses ==
    {[uses |-> {"i2c", "wire"}, begin |-> "wireBegin", code |-> "missing-wire-begin"],
     [uses |-> {"spi"}, begin |-> "spiBegin", code |-> "missing-spi-begin"],
     [uses |-> {"serial"}, begin |-> "serialBegin", code |-> "missing-serial-begin"]}

NoComments ==
    \A k \in 1..Len(typed) :
      Snippet(typed[k]).kind \notin {"lineComment", "blockOpen", "blockClose"}

\* C9: in a text without comments, a bus that is called and whose begin call
\* occurs nowhere gets exactly one missing-begin diagnostic, and that
\* diagnostic starts where the first call to the bus starts.
MissingBeginAtFirstCall ==
    (Validated /\ NoComments) =>
      \A bus \in Buses :
        LET calls == {k \in 1..Len(typed) : Snippet(typed[k]).kind \in bus.uses}
            begins == {k \in 1..Len(typed) : Snippet(typed[k]).kind = bus.begin}
            found == {n \in 1..Len(protocolDiagnostics) :
                        protocolDiagnostics[n].code = bus.code}
        IN  (calls # {} /\ begins = {}) =>
              /\ Cardinality(found) = 1
              /\ \A n \in found :
                   protocolDiagnostics[n].range.start = CallStart(Least(calls))

\* C10: a non-commented pinMode call on a pin that an earlier non-commented
\* pinMode call configured gets exactly one pin-conflict diagnostic, which
\* starts at the later call and whose message names the line of the first
\* pinMode call on that pin.
PinConflictNamesFirstSeenLine ==
    Validated =>
      \A k \in Live({"pinMode"}) :
        LET earlier == {j \in Live({"pinMode"}) :
                          j < k /\ Snippet(typed[j]).arg = Snippet(typed[k]).arg}
            here == DiagnosticsAt(pinDiagnostics, {"pin-conflict"}, StartOf(k))
        IN  earlier # {} =>
              /\ Cardinality(here) = 1
              /\ \A n \in here :
                   pinDiagnostics[n].ref.line = LineOfSnippet(Least(earlier)) + 1

\* the diagnostics of ds with one of the codes given, in order
Coded(ds, codes) == SelectSeq(ds, LAMBDA x : x.code \in codes)

I2CCodes ==
    {"reserved-i2c-address", "invalid-i2c-address", "duplicate-i2c-address",
     "missing-wire-begin"}

ThrowingValidatorsContributeNothing ==
    Validated =>
      reported = flatten([k \in 1..Len(Validators) |->
                            IF Validators[k] \in throwers THEN <<>> ELSE outputs[k]])

\* validateProtocolConfiguration throws with a diagnostic of its own to give,
\* and the diagnostics of the others are returned
ThrowingValidatorWitness ==
    /\ Validated
    /\ throwers = {"validateProtocolConfiguration"}
    /\ \A k \in {1, 3, 4} : outputs[k] # <<>>
    /\ reported = outputs[1] \o outputs[4]

(***************************************************************************)
(* The diagnostic provider applied to documents laid out over several      *)
(* lines: the snippets of one palette are typed, one of the shipped boards *)
(* may be loaded, and validateDocument is called once, no validator        *)
(* throwing.                                                               *)
(***************************************************************************)
InitLayout == InitProvider(LayoutPalettes)

ShippedBoards == {"arduino-uno", "esp32-devkit"}

ValidateLayout == validateDocumentThrowing({{}})

NextLayout ==
    \/ \E id \in palette : TypeSnippet(id)
    \/ \E boardId \in ShippedBoards : loadBoard(boardId)
    \/ ValidateLayout

SpecLayout == InitLayout /\ [][NextLayout]_vars

\* the diagnostics whose range validateStackUsage and validateMemoryAccess
\* build with getRange
MatchCodes ==
    {"stack-overflow-risk", "stack-usage-info", "recursion-warning",
     "unsafe-string-function", "dynamic-allocation"}

\* C21: every diagnostic validateDocument returns has severity 1, 2 or 3 and
\* a range of non-negative positions that ends on the line it starts on; a
\* diagnostic of validateStackUsage or validateMemoryAccess starts at the
\* line and column of the text it is about (the array declaration, the
\* recursive function's name, the call) and ends that text's length later.
RangesAreLineAndColumn ==
    Validated =>
      \A n \in 1..Len(reported) :
        /\ reported[n].severity \in {SeverityError, SeverityWarning, SeverityInformation}
        /\ reported[n].range.start.line \in Nat
        /\ reported[n].range.start.character \in Nat
        /\ reported[n].range.end.line = reported[n].range.start.line
        /\ reported[n].code \in MatchCodes =>
              \E k \in 1..Len(typed) :
                 /\ reported[n].range.start = StartOf(k)
                 /\ reported[n].range.end.character
                       = StartOf(k).character + Snippet(typed[k]).len

\* the diagnostics of ds with one of the codes given that start on a line
OnLine(ds, codes, line) ==
    {n \in 1..Len(ds) : ds[n].code \in codes /\ ds[n].range.start.line = line}

\* the diagnostics validateStackUsage returned
stackDiagnostics == outputs[2]

\* the array declarations typed
Arrays == {k \in 1..Len(typed) : Snippet(typed[k]).kind = "array"}

\* C26: with a board loaded, an array of more than half the board's
\* maxStackDepth gets one stack-overflow-risk warning and no
\* stack-usage-info, one of more than a quarter and at most half gets one
\* stack-usage-info and no stack-overflow-risk, a smaller one gets neither;
\* with no board loaded validateStackUsage returns nothing.
ArraysComparedWithBoardStack ==
    Validated =>
      IF ~isLoaded(currentBoard) THEN stackDiagnostics = <<>>
      ELSE \A k \in Arrays :
             LET bytes == Snippet(typed[k]).arg
                 maxStackDepth == getBoard(currentBoard).maxStackDepth
                 risks == OnLine(stackDiagnostics, {"stack-overflow-risk"}, LineOfSnippet(k))
                 infos == OnLine(stackDiagnostics, {"stack-usage-info"}, LineOfSnippet(k))
             IN  /\ Cardinality(risks) = IF 2 * bytes > maxStackDepth THEN 1 ELSE 0
                 /\ Cardinality(infos) =
                       IF 4 * bytes > maxStackDepth /\ 2 * bytes <= maxStackDepth
                       THEN 1 ELSE 0
                 /\ \A n \in risks : stackDiagnostics[n].severity = SeverityWarning
                 /\ \A n \in infos : stackDiagnostics[n].severity = SeverityInformation

(***************************************************************************)
(* MemoryAnalyzer.analyzeGlobalVariables                                   *)
(***************************************************************************)
\* the characters of t at the offsets of K, in order
Pick(t, K) ==
    [n \in 1..Cardinality(K) |->
        t[1 + CHOOSE k \in K : Cardinality({j \in K : j < k}) = n - 1]]

\* text.replace(/\/\/.*$/gm, ''): on every line, what follows the first //
\* goes, the line break stays
removeLineComments(t) ==
    Pick(t, {k \in 0..(Len(t) - 1) :
               \/ t[k + 1] = NL
               \/ ~\E j \in 0..k :
                     /\ StartsWithAt(t, j, <<SL, SL>>)
                     /\ \A n \in j..k : t[n + 1] # NL})

\* .replace(/\/\*[\s\S]*?\*\//g, ''): each /* up to the first */ after it
\* goes; a /* that is never closed stays
RECURSIVE removeBlockComments(_, _)
removeBlockComments(t, from) ==
    LET open == indexOfFrom(t, <<SL, ST>>, from)
        close == indexOfFrom(t, <<ST, SL>>, open + 2)
    IN  IF open < 0 \/ close < 0 THEN Substring(t, from, Len(t))
        ELSE Substring(t, from, open) \o removeBlockComments(t, close + 2)

cleanText(t) == removeBlockComments(removeLineComments(t), 0)

\* this.typeSizes, by the text of the type; 0 for a text that is no key
typeSizes(type) ==
    CASE type \in {<<"b", "o", "o", "l">>,
                    <<"b", "o", "o", "l", "e", "a", "n">>,
                    <<"b", "y", "t", "e">>,
                    <<"c", "h", "a", "r">>,
                    <<"u", "n", "s", "i", "g", "n", "e", "d", " ", "c", "h", "a", "r">>,
                    <<"i", "n", "t", "8", "_", "t">>,
                    <<"u", "i", "n", "t", "8", "_", "t">>} -> 1
      [] type \in {<<"i", "n", "t">>,
                    <<"u", "n", "s", "i", "g", "n", "e", "d", " ", "i", "n", "t">>,
                    <<"s", "h", "o", "r", "t">>,
                    <<"u", "n", "s", "i", "g", "n", "e", "d", " ", "s", "h", "o", "r", "t">>,
                    <<"v", "o", "i", "d", "*">>,
                    <<"i", "n", "t", "1", "6", "_", "t">>,
                    <<"u", "i", "n", "t", "1", "6", "_", "t">>,
                    <<"s", "i", "z", "e", "_", "t">>} -> 2
      [] type \in {<<"l", "o", "n", "g">>,
                    <<"u", "n", "s", "i", "g", "n", "e", "d", " ", "l", "o", "n", "g">>,
                    <<"f", "l", "o", "a", "t">>,
                    <<"d", "o", "u", "b", "l", "e">>,
                    <<"i", "n", "t", "3", "2", "_", "t">>,
                    <<"u", "i", "n", "t", "3", "2", "_", "t">>} -> 4
      [] OTHER -> 0

\* the one-word type names of globalVarPattern and the words that may follow
\* unsigned\s+
TypeWords ==
    {<<"b", "o", "o", "l">>,
     <<"b", "o", "o", "l", "e", "a", "n">>,
     <<"b", "y", "t", "e">>,
     <<"c", "h", "a", "r">>,
     <<"i", "n", "t">>,
     <<"s", "h", "o", "r", "t">>,
     <<"l", "o", "n", "g">>,
     <<"f", "l", "o", "a", "t">>,
     <<"d", "o", "u", "b", "l", "e">>,
     <<"i", "n", "t", "8", "_", "t">>,
     <<"u", "i", "n", "t", "8", "_", "t">>,
     <<"i", "n", "t", "1", "6", "_", "t">>,
     <<"u", "i", "n", "t", "1", "6", "_", "t">>,
     <<"i", "n", "t", "3", "2", "_", "t">>,
     <<"u", "i", "n", "t", "3", "2", "_", "t">>,
     <<"s", "i", "z", "e", "_", "t">>,
     <<"S", "t", "r", "i", "n", "g">>}
UnsignedWords ==
    {<<"c", "h", "a", "r">>, <<"i", "n", "t">>, <<"s", "h", "o", "r", "t">>, <<"l", "o", "n", "g">>}
S_unsigned == <<"u", "n", "s", "i", "g", "n", "e", "d">>
S_String == <<"S", "t", "r", "i", "n", "g">>

\* the offsets at which a type name of globalVarPattern that starts at i ends
typeEnds(t, i) ==
    {i + Len(w) : w \in {w \in TypeWords : StartsWithAt(t, i, w)}}
    \cup (IF StartsWithAt(t, i, S_unsigned) /\ IsWs(At(t, i + 8))
          THEN {skipWs(t, i + 8) + Len(w) :
                  w \in {w \in UnsignedWords : StartsWithAt(t, skipWs(t, i + 8), w)}}
          ELSE {})

\* (?:static\s+|const\s+|volatile\s+)* from offset i: the offset after the
\* qualifiers
RECURSIVE skipQualifiers(_, _)
skipQualifiers(t, i) ==
    LET ends == {i + Len(w) :
                   w \in {w \in {<<"s", "t", "a", "t", "i", "c">>, <<"c", "o", "n", "s", "t">>, <<"v", "o", "l", "a", "t", "i", "l", "e">>} :
                            StartsWithAt(t, i, w) /\ IsWs(At(t, i + Len(w)))}}
    IN  IF ends = {} THEN i ELSE skipQualifiers(t, skipWs(t, Least(ends)))

\* (\w+)(?:\[(\d+)\])?\s*(?:=|;) from offset n, the start of the name, for a
\* match that started at i with its type in t[a..b)
declarator(t, i, a, b, n) ==
    LET e == TakeWhile(IsWord, t, n)
        d == TakeWhile(IsDigit, t, e + 1)
        sized == At(t, e) = "[" /\ d > e + 1 /\ At(t, d) = "]"
        w == skipWs(t, IF sized THEN d + 1 ELSE e)
    IN  IF e > n /\ At(t, w) \in {"=", ";"}
        THEN [ok |-> TRUE, index |-> i, end |-> w + 1,
              type |-> Substring(t, a, b), name |-> Substring(t, n, e),
              arraySize |-> IF sized THEN parseInt(Substring(t, e + 1, d)) ELSE 1]
        ELSE NoMatch

\* globalVarPattern tried at offset i, which ^ wants at the start of a line
matchGlobalVar(t, i) ==
    IF i > 0 /\ At(t, i - 1) # NL THEN NoMatch
    ELSE LET a == skipWs(t, skipQualifiers(t, i))
             ends == {b \in typeEnds(t, a) : IsWs(At(t, b))}
         IN  IF ends = {} THEN NoMatch
             ELSE declarator(t, i, a, Least(ends), skipWs(t, Least(ends)))

execGlobalVar(t, from) == leftmost(matchGlobalVar, t, from)

\* (beforeMatch.match(/{/g) || []).length <= (beforeMatch.match(/}/g) || []).length
\* for beforeMatch = t.substring(0, index)
inGlobalScope(t, index) ==
    Cardinality({k \in 1..index : t[k] = "{"})
        <= Cardinality({k \in 1..index : t[k] = "}"})

\* \bname at offset j of t
wordAt(t, j, name) ==
    StartsWithAt(t, j, name) /\ (j = 0 \/ ~IsWord(At(t, j - 1)))

\* readPattern.test(after):
\* \bname\s*\[  |  \bname\s*\)  |  [=+\-*/&|<>!,]\s*\bname\b
isRead(after, name) ==
    \/ \E j \in 0..Len(after) :
          /\ wordAt(after, j, name)
          /\ At(after, skipWs(after, j + Len(name))) \in {"[", ")"}
    \/ \E j \in 0..Len(after) :
          /\ At(after, j) \in {"=", "+", "-", "*", "/", "&", "|", "<", ">", "!", ","}
          /\ StartsWithAt(after, skipWs(after, j + 1), name)
          /\ ~IsWord(At(after, skipWs(after, j + 1) + Len(name)))

\* writePattern.test(after):  \bname\s*\[.*\]\s*=  |  \bname\s*=
isWritten(after, name) ==
    \E j \in 0..Len(after) :
       /\ wordAt(after, j, name)
       /\ LET b == skipWs(after, j + Len(name))
          IN  \/ At(after, b) = "="
              \/ /\ At(after, b) = "["
                 /\ \E k \in (b + 1)..Len(after) :
                       /\ At(after, k) = "]"
                       /\ \A n \in (b + 1)..k : At(after, n) # NL
                       /\ At(after, skipWs(after, k + 1)) = "="

\* the size of a global before the usage check
declaredSize(type, arraySize) ==
    IF type = S_String THEN 6 * arraySize
    ELSE IF type = S_char /\ arraySize > 1 THEN arraySize
    ELSE (IF typeSizes(type) = 0 THEN 4 ELSE typeSizes(type)) * arraySize

\* the body of the while loop over globalVarPattern for the match m, then the
\* rest of the loop; ram is analysis.ram
RECURSIVE globalVarLoop(_, _, _)
globalVarMatch(t, ram, m) ==
    IF ~m.ok THEN ram
    ELSE IF ~inGlobalScope(t, m.index) THEN globalVarLoop(t, m.end, ram)
    ELSE
      LET isUsed == \/ isRead(Substring(t, m.end, Len(t)), m.name)
                    \/ isWritten(Substring(t, m.end, Len(t)), m.name)
          adjustedSize == IF isUsed THEN declaredSize(m.type, m.arraySize) ELSE 0
      IN  globalVarLoop(t, m.end,
            [ram EXCEPT
               !.globalVariables = @ + adjustedSize,
               !.dynamicWarnings = IF m.type = S_String THEN @ + 1 ELSE @,
               !.items = Append(@, [name |-> m.name, type |-> m.type,
                                    size |-> adjustedSize,
                                    arraySize |-> m.arraySize])])

globalVarLoop(t, from, ram) == globalVarMatch(t, ram, execGlobalVar(t, from))

S_struct == <<"s", "t", "r", "u", "c", "t">>
S_const == <<"c", "o", "n", "s", "t">>

\* structPattern tried at offset i:  struct\s+(\w+)\s*{([^}]+)}
matchStruct(t, i) ==
    LET a == skipWs(t, i + 6)
        b == TakeWhile(IsWord, t, a)
        c == skipWs(t, b)
        closing == {k \in (c + 1)..(Len(t) - 1) : At(t, k) = "}"}
    IN  IF /\ StartsWithAt(t, i, S_struct) /\ a > i + 6 /\ b > a
           /\ At(t, c) = "{" /\ closing # {} /\ Least(closing) > c + 1
        THEN [ok |-> TRUE, index |-> i, end |-> Least(closing) + 1,
              name |-> Substring(t, a, b),
              body |-> Substring(t, c + 1, Least(closing))]
        ELSE NoMatch

execStruct(t, from) == leftmost(matchStruct, t, from)

\* (\w+)(?:\[(\d+)\])?;  for a member name that starts at n
memberName(body, i, s, b, n) ==
    LET e == TakeWhile(IsWord, body, n)
        d == TakeWhile(IsDigit, body, e + 1)
        sized == At(body, e) = "[" /\ d > e + 1 /\ At(body, d) = "]"
        semi == IF sized THEN d + 1 ELSE e
    IN  IF b > s /\ n > b /\ e > n /\ At(body, semi) = ";"
        THEN [ok |-> TRUE, index |-> i, end |-> semi + 1,
              type |-> Substring(body, s, b),
              arraySize |-> IF sized THEN parseInt(Substring(body, e + 1, d)) ELSE 1]
        ELSE NoMatch

firstOk(x, y) == IF x.ok THEN x ELSE y

\* (\w+(?:\s+\w+)?)\s+(\w+)(?:\[(\d+)\])?;  for a type that starts at s: the
\* type of two words is tried before the type of one word
memberFrom(body, i, s) ==
    LET w1 == TakeWhile(IsWord, body, s)
        a == skipWs(body, w1)
        w2 == TakeWhile(IsWord, body, a)
    IN  firstOk(IF w1 > s /\ a > w1 /\ w2 > a
                THEN memberName(body, i, s, w2, skipWs(body, w2))
                ELSE NoMatch,
                memberName(body, i, s, w1, a))

\* memberPattern tried at offset i: with (?:const\s+)? taken, then without
matchMember(body, i) ==
    firstOk(IF StartsWithAt(body, i, S_const) /\ skipWs(body, i + 5) > i + 5
            THEN memberFrom(body, i, skipWs(body, i + 5))
            ELSE NoMatch,
            memberFrom(body, i, i))

execMember(body, from) == leftmost(matchMember, body, from)

\* the loop over memberPattern: the size of a struct with this body
RECURSIVE memberLoop(_, _, _)
memberMatch(body, structSize, m) ==
    IF ~m.ok THEN structSize
    ELSE memberLoop(body, m.end,
           structSize + (IF typeSizes(m.type) = 0 THEN 4 ELSE typeSizes(m.type))
                          * m.arraySize)

memberLoop(body, from, structSize) ==
    memberMatch(body, structSize, execMember(body, from))

\* structInstances.set(structName, structSize) on a Map kept in insertion order
mapSet(map, key, value) ==
    IF \E k \in 1..Len(map) : map[k].key = key
    THEN [k \in 1..Len(map) |->
            IF map[k].key = key THEN [key |-> key, value |-> value] ELSE map[k]]
    ELSE Append(map, [key |-> key, value |-> value])

\* the loop over structPattern
RECURSIVE structLoop(_, _, _)
structMatch(t, structInstances, m) ==
    IF ~m.ok THEN structInstances
    ELSE structLoop(t, m.end,
           mapSet(structInstances, m.name, memberLoop(m.body, 0, 0)))

structLoop(t, from, structInstances) ==
    structMatch(t, structInstances, execStruct(t, from))

\* instancePattern tried at offset i:
\* \bstructName\s+(\w+)(?:\[(\d+)\])?\s*[;=]
matchInstance(t, i, structName) ==
    IF /\ wordAt(t, i, structName)
       /\ skipWs(t, i + Len(structName)) > i + Len(structName)
    THEN declarator(t, i, i, i + Len(structName),
                    skipWs(t, i + Len(structName)))
    ELSE NoMatch

execInstance(t, from, structName) ==
    leftmost(LAMBDA u, i : matchInstance(u, i, structName), t, from)

\* the loop over instancePattern for one struct: no usage check here
RECURSIVE instanceLoop(_, _, _, _)
instMatch(t, struct, ram, m) ==
    IF ~m.ok THEN ram
    ELSE IF ~inGlobalScope(t, m.index) THEN instanceLoop(t, struct, m.end, ram)
    ELSE instanceLoop(t, struct, m.end,
           [ram EXCEPT
              !.globalVariables = @ + struct.value * m.arraySize,
              !.items = Append(@, [name |-> m.name, type |-> struct.key,
                                   size |-> struct.value * m.arraySize,
                                   arraySize |-> m.arraySize])])

instanceLoop(t, struct, from, ram) ==
    instMatch(t, struct, ram, execInstance(t, from, struct.key))

\* structInstances.forEach(...)
RECURSIVE forEachStruct(_, _, _, _)
forEachStruct(t, structInstances, k, ram) ==
    IF k > Len(structInstances) THEN ram
    ELSE forEachStruct(t, structInstances, k + 1,
                       instanceLoop(t, structInstances[k], 0, ram))

\* the three loops of analyzeGlobalVariables over the text without comments
scanGlobals(clean, ram) ==
    forEachStruct(clean, structLoop(clean, 0, <<>>), 1, globalVarLoop(clean, 0, ram))

\* analyzeGlobalVariables(text, analysis), as the new analysis.ram
analyzeGlobalVariables(t, ram) == scanGlobals(cleanText(t), ram)

\* (t.match(pattern) || []).length for a global pattern tried by M
RECURSIVE count(_, _, _)
count(M(_, _), t, from) ==
    IF ~leftmost(M, t, from).ok THEN 0
    ELSE 1 + count(M, t, leftmost(M, t, from).end)

\* is the character at offset k of a literal whose content starts at j taken
\* by \\. : an odd number of backslashes runs up to it
escapedAt(t, j, k) ==
    LET stops == {n \in (j - 1)..(k - 1) : n = j - 1 \/ At(t, n) # BS}
    IN  (k - 1 - (CHOOSE n \in stops : \A m \in stops : m <= n)) % 2 = 1

\* the offset of the closing quote of a literal whose content starts at j,
\* for ([^"\\]*(\\.[^"\\]*)*)" ; -1 if the literal does not close, which a
\* backslash before a line break also causes
closingQuote(t, j) ==
    LET quotes == {k \in j..(Len(t) - 1) : At(t, k) = DQ /\ ~escapedAt(t, j, k)}
    IN  IF quotes = {} THEN -1
        ELSE IF \E n \in j..(Least(quotes) - 1) :
                  At(t, n) = BS /\ ~escapedAt(t, j, n) /\ At(t, n + 1) = NL
        THEN -1
        ELSE Least(quotes)

\* stringPattern tried at offset i
matchStringLiteral(t, i) ==
    IF At(t, i) = DQ /\ closingQuote(t, i + 1) >= 0
    THEN [ok |-> TRUE, index |-> i, end |-> closingQuote(t, i + 1) + 1,
          content |-> Substring(t, i + 1, closingQuote(t, i + 1))]
    ELSE NoMatch

execStringLiteral(t, from) == leftmost(matchStringLiteral, t, from)

\* the loop of analyzeStringLiterals; flash is analysis.flash
RECURSIVE stringLoop(_, _, _)
stringMatch(t, flash, m) ==
    IF ~m.ok THEN flash
    ELSE stringLoop(t, m.end,
           [flash EXCEPT
              !.strings = @ + Len(m.content) + 1,
              !.items = IF Len(m.content) + 1 > 20
                        THEN Append(@, [content |->
                                          IF Len(m.content) > 30
                                          THEN Substring(m.content, 0, 30)
                                                 \o <<".", ".", ".">>
                                          ELSE m.content,
                                        size |-> Len(m.content) + 1])
                        ELSE @])

stringLoop(t, from, flash) == stringMatch(t, flash, execStringLiteral(t, from))

analyzeStringLiterals(t, flash) == stringLoop(t, 0, flash)

\* one of the words at offset i, after a word boundary: the offset after it
wordEnds(t, i, words) ==
    {i + Len(w) : w \in {w \in words : wordAt(t, i, w)}}

\* mallocPattern tried at offset i:  \b(malloc|calloc|realloc)\s*\(
matchMalloc(t, i) ==
    LET ends == {e \in wordEnds(t, i, {<<"m", "a", "l", "l", "o", "c">>, <<"c", "a", "l", "l", "o", "c">>, <<"r", "e", "a", "l", "l", "o", "c">>}) : At(t, skipWs(t, e)) = "("}
    IN  IF ends # {}
        THEN [ok |-> TRUE, index |-> i, end |-> skipWs(t, Least(ends)) + 1]
        ELSE NoMatch

\* stringConcatPattern tried at offset i:  String\s+\w+\s*=\s*.*\+
matchStringConcat(t, i) ==
    LET a == skipWs(t, i + 6)
        b == TakeWhile(IsWord, t, a)
        c == skipWs(t, b)
        s == skipWs(t, c + 1)
        plus == {k \in s..(Len(t) - 1) :
                   At(t, k) = "+" /\ \A n \in s..(k - 1) : At(t, n) # NL}
    IN  IF /\ StartsWithAt(t, i, S_String) /\ a > i + 6 /\ b > a
           /\ At(t, c) = "=" /\ plus # {}
        THEN [ok |-> TRUE, index |-> i,
              end |-> (CHOOSE k \in plus : \A n \in plus : n <= k) + 1]
        ELSE NoMatch

\* a warning of analysis.warnings, its message left out
Warning(severity, category) == [severity |-> severity, category |-> category]

\* analyzeDynamicAllocation(text, analysis), as the warnings it pushes
analyzeDynamicAllocation(t) ==
    (IF count(matchMalloc, t, 0) > 0
     THEN <<Warning("warning", "dynamic-allocation")>> ELSE <<>>)
      \o (IF count(matchStringConcat, t, 0) > 0
          THEN <<Warning("warning", "string-concat")>> ELSE <<>>)

\* functionPattern tried at offset i:
\* \b(?:void|int|float|char|bool|long|short|byte)\s+\w+\s*\([^)]*\)\s*{
matchFunction(t, i) ==
    LET ends == wordEnds(t, i, {<<"v", "o", "i", "d">>, <<"i", "n", "t">>, <<"f", "l", "o", "a", "t">>, <<"c", "h", "a", "r">>, <<"b", "o", "o", "l">>, <<"l", "o", "n", "g">>, <<"s", "h", "o", "r", "t">>, <<"b", "y", "t", "e">>})
        e == IF ends = {} THEN i ELSE Least(ends)
        a == skipWs(t, e)
        b == TakeWhile(IsWord, t, a)
        c == skipWs(t, b)
        closing == {k \in (c + 1)..(Len(t) - 1) : At(t, k) = ")"}
        d == IF closing = {} THEN Len(t) ELSE skipWs(t, Least(closing) + 1)
    IN  IF /\ ends # {} /\ a > e /\ b > a /\ At(t, c) = "(" /\ closing # {}
           /\ At(t, d) = "{"
        THEN [ok |-> TRUE, index |-> i, end |-> d + 1]
        ELSE NoMatch

\* analyzeStackUsage(text, analysis), as analysis.ram.stackEstimate
analyzeStackUsage(t) ==
    LET callDepth == IF count(matchFunction, t, 0) > 5 THEN 3 ELSE 2
    IN  (IF callDepth < 3 THEN callDepth ELSE 3) * 14

\* /\b(malloc|calloc|new)\b/g tried at offset i
matchHeapWord(t, i) ==
    LET ends == {e \in wordEnds(t, i, {<<"m", "a", "l", "l", "o", "c">>, <<"c", "a", "l", "l", "o", "c">>, <<"n", "e", "w">>}) : ~IsWord(At(t, e))}
    IN  IF ends # {} THEN [ok |-> TRUE, index |-> i, end |-> Least(ends)]
        ELSE NoMatch

estimateFrameworkOverhead(t) ==
    9 + (IF includes(t, S_SerialBegin) THEN 175 ELSE 0)
      + (IF includes(t, S_WireBegin)
         THEN (IF includes(t, S_SerialBegin) THEN 185 ELSE 196) ELSE 0)
      + (IF includes(t, S_SPIBegin) THEN 20 ELSE 0)
      + (IF includes(t, <<"W", "i", "F", "i", ".", "b", "e", "g", "i", "n">>) \/ includes(t, <<"B", "L", "E", "D", "e", "v", "i", "c", "e", ":", ":", "i", "n", "i", "t">>) THEN 150 ELSE 0)
      + count(matchHeapWord, t, 0) * 8

\* boardLimits[currentBoard] || boardLimits['arduino:avr:uno']
getBoardLimits(board) ==
    CASE board = "arduino:avr:mega" -> [ram |-> 8192, flash |-> 262144]
      [] board = "esp32:esp32:esp32" -> [ram |-> 327680, flash |-> 1310720]
      [] OTHER -> [ram |-> 2048, flash |-> 32768]

\* Math.floor in the place of Math.round
percentageFloor(part, whole) == (100 * part) \div whole

\* Math.round((part / whole) * 100) for non-negative integers: the nearest
\* integer, a half going up
percentage(part, whole) == (200 * part + whole) \div (2 * whole)

\* the RAM warning generateWarnings pushes, with every test of the chain made
\* on its own
ramWarningsUnchained(ram) ==
    (IF ram.percentage >= 90 THEN <<Warning("error", "ram-critical")>> ELSE <<>>)
      \o (IF ram.percentage >= 75 THEN <<Warning("warning", "ram-high")>> ELSE <<>>)
      \o (IF ram.percentage >= 60 THEN <<Warning("info", "ram-moderate")>> ELSE <<>>)

\* the if / else if chain on analysis.ram.percentage
ramWarnings(ram) ==
    IF ram.percentage >= 90 THEN <<Warning("error", "ram-critical")>>
    ELSE IF ram.percentage >= 75 THEN <<Warning("warning", "ram-high")>>
    ELSE IF ram.percentage >= 60 THEN <<Warning("info", "ram-moderate")>>
    ELSE <<>>

\* generateWarnings(analysis), as the warnings it pushes
generateWarnings(ram, flash) ==
    ramWarnings(ram)
      \o (IF flash.percentage >= 95
          THEN <<Warning("error", "flash-critical")>> ELSE <<>>)
      \o (IF flash.strings > 1000
          THEN <<Warning("info", "flash-strings")>> ELSE <<>>)

\* the estimation steps of analyzeMemory, in the order it calls them
Steps ==
    {"analyzeGlobalVariables", "analyzeStringLiterals", "analyzeDynamicAllocation",
     "analyzeStackUsage", "estimateFrameworkOverhead"}

\* the totals, percentages and warnings analyzeMemory computes from what the
\* steps left in the analysis
totals(ram, flash, warnings, frameworkOverhead, limits) ==
    LET r == [ram EXCEPT
                !.total = ram.globalVariables + ram.stackEstimate
                            + frameworkOverhead,
                !.percentage = percentage(ram.globalVariables + ram.stackEstimate
                                            + frameworkOverhead, limits.ram)]
        f == [flash EXCEPT
                !.total = flash.strings + 2000,
                !.percentage = percentage(flash.strings + 2000, limits.flash)]
    IN  [returned |-> TRUE, threw |-> FALSE, ram |-> r, flash |-> f,
         warnings |-> warnings \o generateWarnings(r, f), limits |-> limits]

NewRam ==
    [globalVariables |-> 0, stackEstimate |-> 0, dynamicWarnings |-> 0,
     total |-> 0, percentage |-> 0, items |-> <<>>]
NewFlash == [code |-> 0, strings |-> 0, total |-> 0, percentage |-> 0, items |-> <<>>]

\* analyzeMemory(document) on the board set, with the steps of F throwing:
\* no step is called in a try block, so what a step throws leaves
\* analyzeMemory with it
analyzeMemory(t, board, F) ==
    IF F # {} THEN [returned |-> FALSE, threw |-> TRUE]
    ELSE totals([analyzeGlobalVariables(t, NewRam) EXCEPT
                   !.stackEstimate = analyzeStackUsage(t)],
                analyzeStringLiterals(t, NewFlash),
                analyzeDynamicAllocation(t),
                estimateFrameworkOverhead(t),
                getBoardLimits(board))

(***************************************************************************)
(* The memory analyzer applied to a document: the snippets of one palette  *)
(* are typed, a board may be set, and analyzeMemory is called once, with   *)
(* none or one of its estimation steps throwing.                           *)
(***************************************************************************)
MemoryBoards ==
    {"arduino:avr:uno", "arduino:avr:mega", "esp32:esp32:esp32", "arduino:sam:due"}

InitMemory ==
    /\ pc = "input"
    /\ text = <<>>
    /\ StripperIdle
    /\ TrackerIdle
    /\ typed = <<>>
    /\ palette \in MemoryPalettes
    /\ currentBoard = NoBoard
    /\ throwers = {}
    /\ outputs = <<>>
    /\ reported = <<>>
    /\ SessionIdle
    /\ DatabaseReady
    /\ MemoryIdle
    /\ SidebarIdle

\* memoryAnalyzer.setBoard(board)
setBoard(board) ==
    /\ pc = "input"
    /\ memoryBoard' = board
    /\ UNCHANGED <<pc, text, stripperVars, trackerVars, providerVars, sessionVars,
                   databaseVars, failing, analysis, sidebarVars>>

\* memoryAnalyzer.analyzeMemory(document) with no step or one step throwing
AnalyzeMemory ==
    /\ pc = "input"
    /\ pc' = "analyzed"
    /\ \E F \in {{}} \cup {{step} : step \in Steps} :
          /\ failing' = F
          /\ analysis' = analyzeMemory(text, memoryBoard, F)
    /\ UNCHANGED <<text, stripperVars, trackerVars, providerVars, sessionVars,
                   databaseVars, memoryBoard, sidebarVars>>

NextMemory ==
    \/ \E id \in palette : TypeSnippet(id)
    \/ \E board \in MemoryBoards : setBoard(board)
    \/ AnalyzeMemory

SpecMemory == InitMemory /\ [][NextMemory]_vars

Analyzed == pc = "analyzed"

\* C14: the percentages of a returned estimate are integers from 0 to 100
PercentagesWithinRange ==
    (Analyzed /\ analysis.returned) =>
       /\ analysis.ram.percentage \in 0..100
       /\ analysis.flash.percentage \in 0..100

\* the names a snippet declares at global scope and the names it reads or
\* writes, read off the snippet
Declares(id) == IF "declares" \in DOMAIN Snippet(id) THEN Snippet(id).declares ELSE {}
Uses(id) == IF "uses" \in DOMAIN Snippet(id) THEN Snippet(id).uses ELSE {}

\* the text typing the snippets ids gives
RECURSIVE Typing(_)
Typing(ids) == IF ids = <<>> THEN <<>> ELSE Snippet(Head(ids)).chars \o Typing(Tail(ids))

\* the snippets typed, but for the k-th
Without(k) == SubSeq(typed, 1, k - 1) \o SubSeq(typed, k + 1, Len(typed))

\* C15: an item of ram.items whose name is declared once and that no
\* statement of the text reads or writes has size 0, whatever kind of global
\* it is
UnusedGlobalsCostNothing ==
    (Analyzed /\ analysis.returned) =>
       \A k \in 1..Len(analysis.ram.items) :
          (/\ Cardinality({j \in 1..Len(typed) :
                             analysis.ram.items[k].name \in Declares(typed[j])}) = 1
           /\ \A j \in 1..Len(typed) : analysis.ram.items[k].name \notin Uses(typed[j]))
             => analysis.ram.items[k].size = 0

\* C16: a declaration of a fresh name that a later statement references does
\* not make ram.globalVariables smaller than it is for the text without it
DeclarationNeverLowersGlobals ==
    (Analyzed /\ analysis.returned) =>
       \A k \in 1..Len(typed) :
          \A name \in Declares(typed[k]) :
             (/\ \A j \in 1..Len(typed) : j # k => name \notin Declares(typed[j])
              /\ \E j \in (k + 1)..Len(typed) : name \in Uses(typed[j]))
               => analysis.ram.globalVariables
                    >= analyzeMemory(Typing(Without(k)), memoryBoard, {}).ram.globalVariables

\* C17: with one step throwing, analyzeMemory returns an estimate in which
\* that step contributes zero and the other steps contribute what they do
\* when nothing throws
OneFailingStepContributesZero ==
    (Analyzed /\ Cardinality(failing) = 1) =>
       /\ analysis.returned
       /\ analysis.ram.globalVariables =
             IF "analyzeGlobalVariables" \in failing THEN 0
             ELSE analyzeGlobalVariables(text, NewRam).globalVariables
       /\ analysis.flash.strings =
             IF "analyzeStringLiterals" \in failing THEN 0
             ELSE analyzeStringLiterals(text, NewFlash).strings
       /\ analysis.ram.stackEstimate =
             IF "analyzeStackUsage" \in failing THEN 0 ELSE analyzeStackUsage(text)
       /\ analysis.ram.total =
             analysis.ram.globalVariables + analysis.ram.stackEstimate
               + (IF "estimateFrameworkOverhead" \in failing THEN 0
                  ELSE estimateFrameworkOverhead(text))

\* the sizes of the items of a list, added up
RECURSIVE SumOfSizes(_)
SumOfSizes(items) ==
    IF items = <<>> THEN 0 ELSE Head(items).size + SumOfSizes(Tail(items))

\* the RAM of a board id of the analyzer; an id without limits counts as the
\* Uno
RamLimit(board) ==
    CASE board = "arduino:avr:mega" -> 8192
      [] board = "esp32:esp32:esp32" -> 327680
      [] OTHER -> 2048

\* p is x / limit * 100 rounded to the nearest integer, a half going up
IsRounded(p, x, limit) ==
    /\ 2 * (100 * x - p * limit) < limit
    /\ 2 * (100 * x - p * limit) >= -limit

\* the snippets typed are those of ids, in any order, each once
TypedExactly(ids) ==
    /\ Len(typed) = Cardinality(ids)
    /\ {typed[k] : k \in 1..Len(typed)} = ids

\* C27: ram.total is globalVariables + stackEstimate + the framework
\* overhead, ram.percentage is the total over the board's RAM in percent,
\* rounded, globalVariables is the sum of the sizes of ram.items, and a
\* sketch of setup and loop that only calls Serial.begin has a total of
\* 9 + 175 + 2 * 14.
RamTotalIsSumOfParts ==
    (Analyzed /\ analysis.returned) =>
       /\ analysis.ram.total =
             analysis.ram.globalVariables + analysis.ram.stackEstimate
               + estimateFrameworkOverhead(text)
       /\ IsRounded(analysis.ram.percentage, analysis.ram.total, RamLimit(memoryBoard))
       /\ analysis.ram.globalVariables = SumOfSizes(analysis.ram.items)
       /\ TypedExactly({"setupSerial", "loopEmpty"}) =>
             /\ analysis.ram.globalVariables = 0
             /\ analysis.ram.total = 9 + 175 + 2 * 14

\* setup with Serial.begin, a global that is used, and loop, on the Uno:
\* 20 + 28 + 184 bytes of 2048 are 11.3 percent
RamTotalWitness ==
    /\ Analyzed
    /\ analysis.returned
    /\ typed = <<"tenInts", "useBC", "setupSerial">>
    /\ memoryBoard = "arduino:avr:uno"
    /\ Len(analysis.ram.items) = 1
    /\ analysis.ram.total = 232
    /\ analysis.ram.percentage = 11

\* the heap-style calls and String concatenations typed
HeapCalls ==
    {k \in 1..Len(typed) :
        Snippet(typed[k]).kind \in {"malloc", "realloc", "new", "concat"}}

\* the bytes of heap bookkeeping counted for one call
HeapOverheadPerCall == 8

\* C29: every heap-style call and every String concatenation adds one to
\* ram.dynamicWarnings and the per-call heap overhead to the RAM total.
HeapCallsCountedAndCharged ==
    (Analyzed /\ analysis.returned) =>
       /\ analysis.ram.dynamicWarnings = Cardinality(HeapCalls)
       /\ analysis.ram.total =
             analyzeMemory(Typing(SelectSeq(typed, LAMBDA id : Snippet(id).kind
                                      \notin {"malloc", "realloc", "new", "concat"})),
                           memoryBoard, {}).ram.total
               + HeapOverheadPerCall * Cardinality(HeapCalls)

\* the libraries whose begin call is typed
Detected(kind) == \E k \in 1..Len(typed) : Snippet(typed[k]).kind = kind

\* the fixed cost of a library
LibraryCost(kind) ==
    CASE kind = "serialBegin" -> 175
      [] kind = "wireBegin" -> 196
      [] kind = "spiBegin" -> 20

\* the sum of the costs of a set of libraries
RECURSIVE CostOf(_)
CostOf(kinds) ==
    IF kinds = {} THEN 0
    ELSE LET kind == CHOOSE x \in kinds : TRUE
         IN  LibraryCost(kind) + CostOf(kinds \ {kind})

\* C30: the framework overhead is a fixed base plus, for each detected
\* library, its fixed cost once, whatever the number of its calls and
\* whatever other libraries are detected.
OverheadIsBasePlusLibraries ==
    (Analyzed /\ analysis.returned /\ HeapCalls = {}) =>
       analysis.ram.total - analysis.ram.globalVariables - analysis.ram.stackEstimate
          = 9 + CostOf({kind \in {"serialBegin", "wireBegin", "spiBegin"} :
                          Detected(kind)})

(***************************************************************************)
(* generateWarnings applied to an analysis whose percentages are given.    *)
(***************************************************************************)
MaxPercentage == 120

\* flash percentages about the threshold, and the string bytes about theirs
FlashPercentages == {0, 94, 95, 96, 150}
StringBytes == {0, 1000, 1001}

\* an analysis as analyzeMemory hands it to generateWarnings
Totalled(ramPercentage, flashPercentage, strings) ==
    [returned |-> FALSE, threw |-> FALSE,
     ram |-> [NewRam EXCEPT !.percentage = ramPercentage],
     flash |-> [NewFlash EXCEPT !.percentage = flashPercentage, !.strings = strings],
     warnings |-> <<>>,
     limits |-> getBoardLimits("arduino:avr:uno")]

InitWarnings ==
    /\ pc = "input"
    /\ text = <<>>
    /\ StripperIdle
    /\ TrackerIdle
    /\ ProviderIdle
    /\ SessionIdle
    /\ DatabaseIdle
    /\ SidebarIdle
    /\ memoryBoard = "arduino:avr:uno"
    /\ failing = {}
    /\ analysis \in {Totalled(r, f, b) : r \in 0..MaxPercentage,
                                        f \in FlashPercentages, b \in StringBytes}

\* this.generateWarnings(analysis); return analysis
GenerateWarnings ==
    /\ pc = "input"
    /\ pc' = "warned"
    /\ analysis' = [analysis EXCEPT
                      !.returned = TRUE,
                      !.warnings = @ \o generateWarnings(analysis.ram, analysis.flash)]
    /\ UNCHANGED <<text, stripperVars, trackerVars, providerVars, sessionVars,
                   databaseVars, memoryBoard, failing, sidebarVars>>

NextWarnings == GenerateWarnings

SpecWarnings == InitWarnings /\ [][NextWarnings]_vars

\* the warnings of the analysis in one of the categories
InCategories(categories) ==
    SelectSeq(analysis.warnings, LAMBDA w : w.category \in categories)

\* C28: generateWarnings pushes at most one RAM warning: error ram-critical
\* from 90 percent, warning ram-high from 75 to 89, info ram-moderate from
\* 60 to 74, none below 60; and the error flash-critical exactly when
\* flash.percentage is 95 or more.
WarningsFollowThresholds ==
    pc = "warned" =>
       /\ InCategories({"ram-critical", "ram-high", "ram-moderate"}) =
             (CASE analysis.ram.percentage >= 90 ->
                     <<[severity |-> "error", category |-> "ram-critical"]>>
                [] analysis.ram.percentage \in 75..89 ->
                     <<[severity |-> "warning", category |-> "ram-high"]>>
                [] analysis.ram.percentage \in 60..74 ->
                     <<[severity |-> "info", category |-> "ram-moderate"]>>
                [] OTHER -> <<>>)
       /\ InCategories({"flash-critical"}) =
             (IF analysis.flash.percentage >= 95
              THEN <<[severity |-> "error", category |-> "flash-critical"]>>
              ELSE <<>>)

\* RAM at 90 percent and flash at 95: the two errors, and no second RAM
\* warning
WarningsWitness ==
    /\ pc = "warned"
    /\ analysis.ram.percentage = 90
    /\ analysis.flash.percentage = 95
    /\ analysis.flash.strings = 0
    /\ analysis.warnings = <<[severity |-> "error", category |-> "ram-critical"],
                             [severity |-> "error", category |-> "flash-critical"]>>

(***************************************************************************)
(* PinTracker.analyzePinUsage: the scan of the stripped text for the calls *)
(* that use a pin.                                                         *)
(***************************************************************************)

\* parsePin(pinStr); a sum with NaN is NaN
parsePin(pinStr) ==
    IF Head(pinStr) = "A"
    THEN IF parseInt(Tail(pinStr)) = NaN THEN NaN ELSE 14 + parseInt(Tail(pinStr))
    ELSE parseInt(pinStr)

\* name\s*\(\s*(\d+|[A-Z]\d+)\s* tried at i: the call of name up to the
\* white space after its pin token (the same texts as [A-Z]?\d+); end is
\* the offset of what follows
matchPinCall(t, i, name) ==
    LET a == skipWs(t, i + Len(name))
        b == skipWs(t, a + 1)
        c == skipOne(IsUpper, t, b)
        d == TakeWhile(IsDigit, t, c)
    IN  IF StartsWithAt(t, i, name) /\ At(t, a) = "(" /\ d > c
        THEN [ok |-> TRUE, index |-> i, end |-> skipWs(t, d), g1 |-> Substring(t, b, d)]
        ELSE NoMatch

\* the call of name with a token of digits only: name\s*\(\s*(\d+)\s*
matchNumberCall(t, i, name) ==
    LET a == skipWs(t, i + Len(name))
        b == skipWs(t, a + 1)
        d == TakeWhile(IsDigit, t, b)
    IN  IF StartsWithAt(t, i, name) /\ At(t, a) = "(" /\ d > b
        THEN [ok |-> TRUE, index |-> i, end |-> skipWs(t, d), g1 |-> Substring(t, b, d)]
        ELSE NoMatch

\* the match m, if the character c follows it
followedBy(t, m, c) ==
    IF m.ok /\ At(t, m.end) = c THEN [m EXCEPT !.end = m.end + 1] ELSE NoMatch

S_OUTPUT == <<"O", "U", "T", "P", "U", "T">>
S_INPUT_PULLUP == <<"I", "N", "P", "U", "T", "_", "P", "U", "L", "L", "U", "P">>
S_analogWrite == <<"a", "n", "a", "l", "o", "g", "W", "r", "i", "t", "e">>
S_analogRead == <<"a", "n", "a", "l", "o", "g", "R", "e", "a", "d">>

\* \s*(INPUT|OUTPUT|INPUT_PULLUP)\s*\) after the comma at the end of m: the
\* word there is one of the three (what follows it is white space or the
\* parenthesis, so the alternative taken is the whole word)
modeOf(t, m) ==
    LET f == skipWs(t, m.end)
        g == TakeWhile(IsWord, t, f)
        h == skipWs(t, g)
    IN  IF /\ Substring(t, f, g) \in {S_INPUT, S_OUTPUT, S_INPUT_PULLUP}
           /\ At(t, h) = ")"
        THEN [ok |-> TRUE, index |-> m.index, end |-> h + 1, g1 |-> m.g1,
              g2 |-> Substring(t, f, g)]
        ELSE NoMatch

\* pinModePattern tried at i
trackPinMode(t, i) ==
    LET m == followedBy(t, matchPinCall(t, i, S_pinMode), ",")
    IN  IF m.ok THEN modeOf(t, m) ELSE NoMatch

\* digitalWritePattern, analogWritePattern, analogReadPattern tried at i
trackDigitalWrite(t, i) == followedBy(t, matchPinCall(t, i, S_digitalWrite), ",")
trackAnalogWrite(t, i) == followedBy(t, matchPinCall(t, i, S_analogWrite), ",")
trackAnalogRead(t, i) == followedBy(t, matchPinCall(t, i, S_analogRead), ")")

\* interruptPattern tried at i: the digitalPinToInterrupt alternative first,
\* then the one with the pin given directly (match[1] || match[2])
trackInterrupt(t, i) ==
    LET a == skipWs(t, i + Len(S_attachInterrupt))
        inner == followedBy(t, matchNumberCall(t, skipWs(t, a + 1), S_digitalPinToInterrupt), ")")
    IN  IF StartsWithAt(t, i, S_attachInterrupt) /\ At(t, a) = "(" /\ inner.ok
        THEN [inner EXCEPT !.index = i]
        ELSE followedBy(t, matchNumberCall(t, i, S_attachInterrupt), ",")

\* every match of a global pattern tried by M, from lastIndex = from on
RECURSIVE matches(_, _, _)
matches(M(_, _), t, from) ==
    IF ~leftmost(M, t, from).ok THEN <<>>
    ELSE <<leftmost(M, t, from)>> \o matches(M, t, leftmost(M, t, from).end)

\* usages.push({pin, type, function, line, offset}) of a while loop, for the
\* matches ms found in the stripped text; the line is asked of the document
pushUsages(document, ms, function, type) ==
    [k \in 1..Len(ms) |->
        [pin |-> parsePin(ms[k].g1),
         type |-> IF function = "pinMode"
                  THEN (IF ms[k].g2 = S_OUTPUT THEN "digital-output" ELSE "digital-input")
                  ELSE type,
         function |-> function,
         line |-> positionAt(document, ms[k].index).line,
         offset |-> ms[k].index]]

\* /Wire\.begin\s*\(\s*\)/, /SPI\.begin\s*\(\s*\)/ tried at i
matchBeginCall(t, i, name) ==
    LET a == skipWs(t, i + Len(name))
        b == skipWs(t, a + 1)
    IN  IF StartsWithAt(t, i, name) /\ At(t, a) = "(" /\ At(t, b) = ")"
        THEN [ok |-> TRUE, index |-> i, end |-> b + 1, all |-> Substring(t, i, b + 1)]
        ELSE NoMatch
trackWireBegin(t, i) == matchBeginCall(t, i, S_WireBegin)
trackSPIBegin(t, i) == matchBeginCall(t, i, S_SPIBegin)

\* /Serial\.begin\s*\(/ tried at i
trackSerialBegin(t, i) ==
    LET a == skipWs(t, i + Len(S_SerialBegin))
    IN  IF StartsWithAt(t, i, S_SerialBegin) /\ At(t, a) = "("
        THEN [ok |-> TRUE, index |-> i, end |-> a + 1, all |-> Substring(t, i, a + 1)]
        ELSE NoMatch

\* the usages pushed for a bus whose begin call matched as m: one for each
\* of its pins, at text.indexOf(match[0])
busUsages(document, t, m, function, pins) ==
    IF ~m.ok THEN <<>>
    ELSE [k \in 1..Len(pins) |->
            [pin |-> pins[k].pin, type |-> pins[k].type, function |-> function,
             line |-> positionAt(document, indexOf(t, m.all)).line,
             offset |-> indexOf(t, m.all)]]

WirePins == <<[pin |-> 18, type |-> "i2c-sda"], [pin |-> 19, type |-> "i2c-scl"]>>
SPIPins ==
    <<[pin |-> 10, type |-> "spi-ss"], [pin |-> 11, type |-> "spi-mosi"],
      [pin |-> 12, type |-> "spi-miso"], [pin |-> 13, type |-> "spi-sck"]>>
SerialPins == <<[pin |-> 0, type |-> "serial-rx"], [pin |-> 1, type |-> "serial-tx"]>>

S_SPIBeginCall == <<"S", "P", "I", ".", "b", "e", "g", "i", "n", "(", ")">>

\* the scans of analyzePinUsage over the stripped text t, in the order of
\* the code
scanUsages(document, t) ==
    pushUsages(document, matches(trackPinMode, t, 0), "pinMode", "")
    \o pushUsages(document, matches(trackDigitalWrite, t, 0), "digitalWrite", "digital-output")
    \o pushUsages(document, matches(trackAnalogWrite, t, 0), "analogWrite", "pwm")
    \o pushUsages(document, matches(trackAnalogRead, t, 0), "analogRead", "analog-input")
    \o pushUsages(document, matches(trackInterrupt, t, 0), "attachInterrupt", "interrupt")
    \o (IF includes(t, S_WireBeginCall)
        THEN busUsages(document, t, leftmost(trackWireBegin, t, 0), "Wire", WirePins)
        ELSE <<>>)
    \o (IF includes(t, S_SPIBeginCall)
        THEN busUsages(document, t, leftmost(trackSPIBegin, t, 0), "SPI", SPIPins)
        ELSE <<>>)
    \o busUsages(document, t, leftmost(trackSerialBegin, t, 0), "Serial", SerialPins)

\* analyzePinUsage(document)
analyzePinUsage(document) == scanUsages(document, strip(document))

(***************************************************************************)
(* The tracker applied to a document: the snippets of one palette are      *)
(* typed, then analyzePinUsage is called once.                             *)
(***************************************************************************)
\* pin tokens of each form the patterns accept
TokenPalette ==
    {"pinMode5Out", "pinModeA4", "pinModeD2", "analogReadA0", "analogWrite9",
     "digitalWrite5"}
\* calls after, and inside, comments
CommentedPalette ==
    {"lineComment", "blockOpen", "blockClose", "newline", "pinMode5Out", "attach5"}
\* the begin calls of the three buses
BeginPalette == {"wireBegin", "spiBegin", "serialBegin", "lineComment", "newline"}
ScanPalettes == {TokenPalette, CommentedPalette, BeginPalette}

InitScan ==
    /\ pc = "input"
    /\ text = <<>>
    /\ StripperIdle
    /\ TrackerIdle
    /\ typed = <<>>
    /\ palette \in ScanPalettes
    /\ currentBoard = NoBoard
    /\ throwers = {}
    /\ outputs = <<>>
    /\ reported = <<>>
    /\ SessionIdle
    /\ DatabaseReady
    /\ MemoryIdle
    /\ SidebarIdle

\* pinTracker.analyzePinUsage(document)
AnalyzePinUsage ==
    /\ pc = "input"
    /\ pc' = "tracked"
    /\ usages' = analyzePinUsage(text)
    /\ UNCHANGED <<text, stripperVars, pinMap, annotated, previous, providerVars, sessionVars,
                   databaseVars, memoryVars, sidebarVars>>

NextScan ==
    \/ \E id \in palette : TypeSnippet(id)
    \/ AnalyzePinUsage

SpecScan == InitScan /\ [][NextScan]_vars

Tracked == pc = "tracked"

\* the function a usage names, for the snippets of each kind
PinCalls == {"pinMode", "digitalWrite", "analogWrite", "analogRead", "attachInterrupt"}
BeginCalls ==
    [wireBegin |-> "Wire", spiBegin |-> "SPI", serialBegin |-> "Serial"]

\* the j-th least element of a set of numbers
Nth(S, j) == CHOOSE k \in S : Cardinality({i \in S : i < k}) = j - 1

\* the usages returned for the function f, in the order returned
UsagesOf(f) == SelectSeq(usages, LAMBDA u : u.function = f)

\* C19: every usage analyzePinUsage returns has a non-negative integer as
\* its pin, and a call typed outside comments with a pin written in digits
\* or as A<n> has a usage with the pin n, or 14 + n.
PinsResolved ==
    Tracked =>
       /\ \A k \in 1..Len(usages) : usages[k].pin \in Nat
       /\ \A k \in Live(PinCalls) :
             Snippet(typed[k]).arg # NaN =>
                \E j \in 1..Len(usages) :
                   /\ usages[j].function = Snippet(typed[k]).kind
                   /\ usages[j].pin = Snippet(typed[k]).arg

\* C20: the line of every usage is the line of the document its call starts
\* on: the j-th usage of a function has the line of the j-th call of that
\* function typed outside comments, and the usages of a bus have the line
\* of its first begin call typed outside comments.
LinesAreOriginal ==
    Tracked =>
       /\ \A f \in PinCalls :
             \A j \in 1..Len(UsagesOf(f)) :
                j <= Cardinality(Live({f}))
                   => UsagesOf(f)[j].line = LineOfSnippet(Nth(Live({f}), j))
       /\ \A kind \in DOMAIN BeginCalls :
             \A j \in 1..Len(UsagesOf(BeginCalls[kind])) :
                Live({kind}) # {}
                   => UsagesOf(BeginCalls[kind])[j].line
                        = LineOfSnippet(Nth(Live({kind}), 1))

(***************************************************************************)
(* HardwareDatabase.initialize over a storage that may lack directories.   *)
(* The storage says which of the three directories exist, the descriptor   *)
(* files in each, whether the process may write there, and which           *)
(* directories this run created.                                           *)
(***************************************************************************)
Parts == {"boards", "protocols", "libraries"}

\* createDefaultBoards / createDefaultProtocols / createDefaultLibraries:
\* ensureDir and writeJSON reject on a storage that is not writable
createDefaults(st, part) ==
    IF ~st.writable THEN [ok |-> FALSE, storage |-> st]
    ELSE [ok |-> TRUE,
          storage |-> [st EXCEPT !.exists = @ \cup {part},
                                 !.files[part] = StorageAsShipped.files[part],
                                 !.created = @ \cup {part}]]

\* loadBoardDefinitions / loadProtocolDefinitions / loadLibraryDefinitions:
\* the defaults are created if the directory is missing, then readdir and one
\* map entry per .json file
loadDefinitions(st, part) ==
    LET e == IF part \notin st.exists THEN createDefaults(st, part)
             ELSE [ok |-> TRUE, storage |-> st]
    IN  IF ~e.ok THEN [ok |-> FALSE, storage |-> e.storage, ids |-> {}]
        ELSE [ok |-> TRUE, storage |-> e.storage, ids |-> e.storage.files[part]]

\* initialize(): the three loaders in turn; a rejection ends it there
initialize(st) ==
    LET b == loadDefinitions(st, "boards")
        p == loadDefinitions(b.storage, "protocols")
        l == loadDefinitions(p.storage, "libraries")
    IN  [ok |-> b.ok /\ p.ok /\ l.ok,
         storage |-> IF ~b.ok THEN b.storage ELSE IF ~p.ok THEN p.storage ELSE l.storage,
         boards |-> b.ids,
         protocols |-> IF b.ok THEN p.ids ELSE {},
         commonLibraries |-> IF b.ok /\ p.ok THEN l.ids ELSE {}]

\* the storages a server may start on
Storages ==
    { [exists |-> {part \in Parts : f[part] # {"-"}},
       files |-> [part \in Parts |-> f[part] \ {"-"}],
       writable |-> w,
       created |-> {}] :
      f \in [boards : {{"-"}, {}, {"arduino-uno"}, {"esp32-devkit"},
                       {"arduino-uno", "esp32-devkit"}},
             protocols : {{"-"}, {}, {"i2c", "spi"}},
             libraries : {{"-"}, {"arduino-core"}}],
      w \in BOOLEAN }

\* the ids a client asks loadBoard for, the pins and the kinds it asks about
RequestedIds == {"arduino-uno", "esp32-devkit", "arduino-mega"}
QueryPins == {0, 13, 14, 34}
QueryKinds == {"digital", "analog", "pwm", "interrupts", "touch"}

InitDatabase ==
    /\ pc = "input"
    /\ text = <<>>
    /\ StripperIdle
    /\ TrackerIdle
    /\ ProviderIdle
    /\ SessionIdle
    /\ storage \in Storages
    /\ boards = {}
    /\ protocols = {}
    /\ commonLibraries = {}
    /\ initialized = "pending"
    /\ answers = NoAnswer
    /\ requested = NoBoard
    /\ MemoryIdle
    /\ SidebarIdle

\* handleInitialize: await this.hardwareDB.initialize(), then the reply
handleInitialize ==
    /\ pc = "input"
    /\ initialized = "pending"
    /\ \E r \in {initialize(storage)} :
          /\ storage' = r.storage
          /\ boards' = r.boards
          /\ protocols' = r.protocols
          /\ commonLibraries' = r.commonLibraries
          /\ initialized' = IF r.ok THEN "fulfilled" ELSE "rejected"
    /\ UNCHANGED <<pc, text, stripperVars, trackerVars, providerVars, sessionVars,
                   answers, requested, memoryVars, sidebarVars>>

\* isPinValid(pin, kind) and isPinCapable(pin, kind) asked of the database
QueryPin(pin, kind) ==
    /\ pc = "input"
    /\ answers' = [asked |-> TRUE, board |-> currentBoard, pin |-> pin, kind |-> kind,
                   isPinValid |-> isPinValid(currentBoard, pin, kind),
                   isPinCapable |-> isPinCapable(currentBoard, pin, kind)]
    /\ UNCHANGED <<pc, text, stripperVars, trackerVars, providerVars, sessionVars,
                   storage, boards, protocols, commonLibraries, initialized, requested,
                   memoryVars, sidebarVars>>

NextDatabase ==
    \/ handleInitialize
    \/ \E boardId \in RequestedIds : loadBoard(boardId)
    \/ \E pin \in QueryPins, kind \in QueryKinds : QueryPin(pin, kind)

SpecDatabase == InitDatabase /\ [][NextDatabase]_vars

\* C11: a query made while no board is loaded (currentBoard null, or
\* undefined after loadBoard found no such id) answers false, for
\* isPinValid and isPinCapable alike, and is answered (nothing was thrown).
NoBoardAnswersFalse ==
    (answers.asked /\ ~isLoaded(answers.board))
        => (answers.isPinValid = FALSE /\ answers.isPinCapable = FALSE)

\* a query answered after loadBoard was given an id the store does not hold
NoBoardAnswerWitness ==
    /\ answers.asked
    /\ answers.board = Undefined
    /\ currentBoard = Undefined
    /\ answers.isPinValid = FALSE

\* getCurrentBoard()
getCurrentBoard == currentBoard

\* what the last pin query asked, <<>> when none was made
Asked(a) == IF a.asked THEN <<a.board, a.pin, a.kind>> ELSE <<>>

\* C24: a loadBoard(id) leaves getCurrentBoard() at the descriptor stored
\* under id, or at no board when the store holds none under id; a pin query
\* changes neither the current board nor the stored descriptors.
LoadBoardSelectsOrDrops ==
    [][/\ (requested' # requested \/ currentBoard' # currentBoard) =>
             /\ requested' \in boards => getCurrentBoard' = requested'
             /\ requested' \notin boards => ~isLoaded(getCurrentBoard')
       /\ Asked(answers') # Asked(answers) =>
             /\ getCurrentBoard' = getCurrentBoard
             /\ boards' = boards]_vars

\* a board was loaded and queried, then loadBoard was given an id the store
\* does not hold
BoardDroppedWitness ==
    /\ answers.asked
    /\ isLoaded(answers.board)
    /\ requested = "arduino-mega"
    /\ ~isLoaded(getCurrentBoard)

\* the directories that were missing when initialize ran
MissingAtStart == storage.created \cup (Parts \ storage.exists)

\* the ids the database holds for a part
Held(part) ==
    CASE part = "boards" -> boards
      [] part = "protocols" -> protocols
      [] part = "libraries" -> commonLibraries

\* C12: once handleInitialize has run on a storage that lacked a directory,
\* the request has not failed and the database holds no descriptor for the
\* parts that were missing.
InitializeSoftOnMissingStorage ==
    (initialized # "pending" /\ MissingAtStart # {})
        => /\ initialized = "fulfilled"
           /\ \A part \in MissingAtStart : Held(part) = {}

(***************************************************************************)
(* The language server and the sidebar over one open document.  A handler  *)
(* runs to its await in one step and is resumed in another; handlers that  *)
(* are suspended are resumed in any order.  validateDocument reads the     *)
(* text and the board before its first await, so a pass carries the        *)
(* diagnostics of the version it was started on.  In a session reported   *)
(* holds what validateDocument returns for the document and the board as   *)
(* they are, which a handler reaching its validateDocument call takes.     *)
(***************************************************************************)
MaxVersion == 2
MaxInflight == 2
MaxNotifications == 2

\* a statement whose diagnostics depend on the board: the Arduino Uno has no
\* pin 99
SessionPalette == {"pinMode99"}

\* the board types a configuration change names
SessionBoards == {"arduino-uno"}

Init ==
    /\ pc = "session"
    /\ text = <<>>
    /\ StripperIdle
    /\ TrackerIdle
    /\ typed = <<>>
    /\ palette = SessionPalette
    /\ currentBoard = NoBoard
    /\ throwers = {}
    /\ outputs = <<>>
    /\ reported = <<>>
    /\ SessionIdle
    /\ DatabaseReady
    /\ MemoryIdle
    /\ SidebarIdle

\* a handler suspended at `await this.diagnosticProvider.validateDocument(...)`;
\* boardType is the change.settings.orbitIDE.boardType of its handleConfigChange
Pass(handler, boardType, v, board, diagnostics) ==
    [handler |-> handler, at |-> "validateDocument", boardType |-> boardType,
     version |-> v, board |-> board, diagnostics |-> diagnostics]

\* handleConfigChange suspended at `await this.hardwareDB.loadBoard(...)`
AwaitingLoadBoard(boardType) ==
    [handler |-> "handleConfigChange", at |-> "loadBoard", boardType |-> boardType,
     version |-> 0, board |-> NoBoard, diagnostics |-> <<>>]

\* documents.onDidChangeContent: the document has a new version and
\* handleDocumentChange runs up to its await
handleDocumentChange(id) ==
    /\ version < MaxVersion
    /\ Cardinality(inflight) < MaxInflight
    /\ typed' = Append(typed, id)
    /\ text' = text \o Snippet(id).chars
    /\ version' = version + 1
    /\ reported' = validateDocument(text', currentBoard, {})
    /\ inflight' = inflight \cup
                     {Pass("handleDocumentChange", NoBoard, version', currentBoard,
                           reported')}
    /\ UNCHANGED <<pc, stripperVars, databaseVars, trackerVars, palette, currentBoard, throwers,
                   outputs, published, channel, cachedPinMap,
                   cachedLiveMemory, memoryVars, sidebarVars>>

\* this.documents.all().forEach(async (document) => { ... }) up to the await
revalidateAll(passes, boardType) ==
    IF version = 0 THEN passes
    ELSE passes \cup {Pass("handleConfigChange", boardType, version, currentBoard,
                           reported)}

\* handleConfigChange without its loadBoard call
handleConfigChangeWithoutLoad(boardType) ==
    /\ \A p \in inflight : p.at # "loadBoard"
    /\ Cardinality(inflight) < MaxInflight
    /\ inflight' = inflight \cup {AwaitingLoadBoard(boardType)}
    /\ UNCHANGED <<pc, text, stripperVars, databaseVars, trackerVars, providerVars, version,
                   published, channel, cachedPinMap, cachedLiveMemory, memoryVars, sidebarVars>>

\* onDidChangeConfiguration with a boardType: hardwareDB.loadBoard runs and
\* the handler is suspended at its await
handleConfigChange(boardType) ==
    /\ \A p \in inflight : p.at # "loadBoard"
    /\ Cardinality(inflight) < MaxInflight
    /\ \E board \in {get(boards, boardType)} :
          /\ currentBoard' = board
          /\ reported' = validateDocument(text, board, {})
    /\ inflight' = inflight \cup {AwaitingLoadBoard(boardType)}
    /\ UNCHANGED <<pc, text, stripperVars, databaseVars, trackerVars, typed, palette, throwers,
                   outputs, version, published, channel, cachedPinMap,
                   cachedLiveMemory, memoryVars, sidebarVars>>

\* onDidChangeConfiguration without a boardType: nothing is awaited before
\* the open documents are revalidated
handleSettingsChange ==
    /\ Cardinality(inflight) < MaxInflight
    /\ inflight' = revalidateAll(inflight, NoBoard)
    /\ UNCHANGED <<pc, text, stripperVars, databaseVars, trackerVars, providerVars, version,
                   published, channel, cachedPinMap, cachedLiveMemory, memoryVars, sidebarVars>>

\* handleConfigChange resumed after loadBoard
resumeConfigChange ==
    /\ \E a \in inflight :
          /\ a.at = "loadBoard"
          /\ inflight' = revalidateAll(inflight \ {a}, a.boardType)
    /\ UNCHANGED <<pc, text, stripperVars, databaseVars, trackerVars, providerVars, version,
                   published, channel, cachedPinMap, cachedLiveMemory, memoryVars, sidebarVars>>

\* the uri of the document of the session
SessionUri == "a.ino"

\* the pin map and the memory analysis of a pass over the document at uri, sent
\* to the extension with the version they were computed from
notificationsFor(uri, v) ==
    <<[method |-> "sentinel/pinMap", version |-> v, uri |-> uri],
      [method |-> "sentinel/memoryAnalysis", version |-> v, uri |-> uri]>>

notificationsOf(v) == notificationsFor(SessionUri, v)

\* a handler resumed after validateDocument: connection.sendDiagnostics, and
\* with it the pin map and the memory analysis of the same pass
sendDiagnostics(p) ==
    /\ p \in inflight
    /\ p.at = "validateDocument"
    /\ Len(channel) + Len(notificationsOf(p.version)) <= MaxNotifications
    /\ published' = [version |-> p.version, diagnostics |-> p.diagnostics,
                     board |-> p.board]
    /\ channel' = channel \o notificationsOf(p.version)
    /\ inflight' = inflight \ {p}
    /\ UNCHANGED <<pc, text, stripperVars, databaseVars, trackerVars, providerVars, version,
                   cachedPinMap, cachedLiveMemory, memoryVars, sidebarVars>>

\* this._view.webview.postMessage of the messages a handler sends, when the
\* view is resolved
postMessage(by, memory, pins, live, fileUri) ==
    IF view.resolved
    THEN [by |-> by, memory |-> memory, pinMap |-> pins,
          liveMemory |-> live, fileUri |-> fileUri]
    ELSE posted

\* client.onNotification('sentinel/pinMap'): sidebarProvider.updatePinMap
\* caches the pin map and the uri, and posts the pin map
updatePinMap ==
    /\ channel # <<>>
    /\ Head(channel).method = "sentinel/pinMap"
    /\ cachedPinMap' = [version |-> Head(channel).version, uri |-> Head(channel).uri]
    /\ cachedFileUri' = Head(channel).uri
    /\ posted' = postMessage("updatePinMap", NoResults, cachedPinMap', NoResults,
                             cachedFileUri')
    /\ channel' = Tail(channel)
    /\ UNCHANGED <<pc, text, stripperVars, databaseVars, trackerVars, providerVars, version,
                   inflight, published, cachedLiveMemory, memoryVars, cachedMemory,
                   activeFile, view, timers>>

\* client.onNotification('sentinel/memoryAnalysis'): updateLiveMemory caches
\* the analysis and the uri, and posts the analysis
updateLiveMemory ==
    /\ channel # <<>>
    /\ Head(channel).method = "sentinel/memoryAnalysis"
    /\ cachedLiveMemory' = [version |-> Head(channel).version, uri |-> Head(channel).uri]
    /\ cachedFileUri' = Head(channel).uri
    /\ posted' = postMessage("updateLiveMemory", NoResults, NoResults, cachedLiveMemory',
                             cachedFileUri')
    /\ channel' = Tail(channel)
    /\ UNCHANGED <<pc, text, stripperVars, databaseVars, trackerVars, providerVars, version,
                   inflight, published, cachedPinMap, memoryVars, cachedMemory,
                   activeFile, view, timers>>

Next ==
    \/ \E id \in palette : handleDocumentChange(id)
    \/ \E boardType \in SessionBoards : handleConfigChange(boardType)
    \/ handleSettingsChange
    \/ resumeConfigChange
    \/ \E p \in inflight : sendDiagnostics(p)
    \/ updatePinMap
    \/ updateLiveMemory

Spec == Init /\ [][Next]_vars

TextOfVersion(v) == Typing(SubSeq(typed, 1, v))

\* the revalidations a configuration change can start, by the version it
\* finds and the board in force when it runs
Revalidations ==
    [version : 1..MaxVersion, board : {NoBoard} \cup SessionBoards]

\* the revalidations of class c suspended at their await
Revalidating(c) ==
    {p \in inflight : /\ p.handler = "handleConfigChange"
                      /\ p.at = "validateDocument"
                      /\ p.version = c.version
                      /\ p.board = c.board}

SpecFair ==
    /\ Spec
    /\ WF_vars(resumeConfigChange)
    /\ WF_vars(updatePinMap)
    /\ WF_vars(updateLiveMemory)
    /\ \A c \in Revalidations :
          SF_vars(\E p \in Revalidating(c) : sendDiagnostics(p))

\* what a suspended revalidation carries, and what is published, are the
\* diagnostics of that version of the text under the board recorded with
\* them; for a change that named a board type the board is the one it named
ComputedUnderBoardInForce ==
    /\ \A p \in inflight :
          (p.at = "validateDocument" /\ p.boardType # NoBoard)
             => p.board = get(boards, p.boardType)
    /\ \A c \in Revalidations :
          (\/ published.version = c.version /\ published.board = c.board
           \/ \E p \in inflight : /\ p.at = "validateDocument"
                                  /\ p.version = c.version
                                  /\ p.board = c.board)
             => \E diagnostics \in {validateDocument(TextOfVersion(c.version), c.board, {})} :
                   /\ \A p \in inflight :
                         (p.at = "validateDocument" /\ p.version = c.version
                                                    /\ p.board = c.board)
                            => p.diagnostics = diagnostics
                   /\ (published.version = c.version /\ published.board = c.board)
                         => published.diagnostics = diagnostics

\* a change that names a board type loads it in the step that receives the
\* change, and its resumption starts the revalidation of the open document
LoadsThenRevalidates ==
    /\ \A a \in inflight' \ inflight :
          a.at = "loadBoard" => currentBoard' = get(boards, a.boardType)
    /\ \A a \in inflight \ inflight' :
          (a.at = "loadBoard" /\ version > 0)
             => \E p \in inflight' :
                   /\ p.handler = "handleConfigChange"
                   /\ p.at = "validateDocument"
                   /\ p.boardType = a.boardType
                   /\ p.version = version
                   /\ p.board = get(boards, a.boardType)

\* C18: a configuration change that sets a board type loads the board before
\* it revalidates, and every configuration change leads to the publication,
\* for the open document, of diagnostics computed under the board in force
\* after the change.
ConfigChangeRevalidates ==
    /\ []ComputedUnderBoardInForce
    /\ [][LoadsThenRevalidates]_vars
    /\ \A boardType \in SessionBoards, v \in 1..MaxVersion :
          (AwaitingLoadBoard(boardType) \in inflight /\ version = v)
             ~> (published.version >= v /\ published.board = get(boards, boardType))
    /\ \A c \in Revalidations :
          (Revalidating(c) # {})
             ~> (published.version = c.version /\ published.board = c.board)

\* the document was published without a board, then the board was switched
\* and the revalidation of the second version is on its way
ConfigChangeWitness ==
    /\ published = [version |-> 1, diagnostics |-> <<>>, board |-> NoBoard]
    /\ currentBoard = "arduino-uno"
    /\ \E p \in inflight :
          /\ p.handler = "handleConfigChange"
          /\ p.boardType = "arduino-uno"
          /\ p.version = 2
          /\ DiagnosticsAt(p.diagnostics, {"invalid-pin"}, StartOf(2)) # {}

(***************************************************************************)
(* SentinelSidebarProvider: what it caches for the webview and what its    *)
(* timers post, while the server analyses the files of the workspace, the  *)
(* editor moves between them and the view is resolved, hidden and shown.   *)
(***************************************************************************)
\* the files of the workspace
Files == {"a.ino", "b.ino"}

\* the delays of the setTimeout calls of resolveWebviewView and of its
\* visibility listener
ResolveDelays == {100, 500, 1000}
VisibilityDelays == {200, 600}

InitSidebar ==
    /\ pc = "input"
    /\ text = <<>>
    /\ StripperIdle
    /\ TrackerIdle
    /\ typed = <<>>
    /\ palette = {}
    /\ currentBoard = NoBoard
    /\ throwers = {}
    /\ outputs = <<>>
    /\ reported = <<>>
    /\ SessionIdle
    /\ DatabaseReady
    /\ MemoryIdle
    /\ SidebarIdle

\* validateTextDocument of the server on the document at uri: its pin map and
\* its memory analysis are on their way to the client
analysed(uri) ==
    /\ Len(channel) + Len(notificationsFor(uri, 1)) <= MaxNotifications
    /\ channel' = channel \o notificationsFor(uri, 1)
    /\ UNCHANGED <<pc, text, stripperVars, databaseVars, trackerVars, providerVars, version,
                   inflight, published, cachedPinMap, cachedLiveMemory, memoryVars,
                   sidebarVars>>

\* vscode.window.activeTextEditor changes: another file, or no editor
changeActiveTextEditor(uri) ==
    /\ uri # activeFile
    /\ activeFile' = uri
    /\ UNCHANGED <<pc, text, stripperVars, databaseVars, trackerVars, providerVars,
                   sessionVars, memoryVars, cachedMemory, cachedFileUri, view, timers,
                   posted>>

\* resolveWebviewView: keeps the view; timers when the cache is for the
\* current file, the two live caches dropped when it is not
resolveWebviewView ==
    /\ ~view.resolved
    /\ view' = [resolved |-> TRUE, visible |-> TRUE]
    /\ IF cachedFileUri = activeFile
       THEN /\ timers' = timers \cup ResolveDelays
            /\ UNCHANGED <<cachedPinMap, cachedLiveMemory>>
       ELSE /\ cachedPinMap' = NoResults
            /\ cachedLiveMemory' = NoResults
            /\ UNCHANGED timers
    /\ UNCHANGED <<pc, text, stripperVars, databaseVars, trackerVars, providerVars, version,
                   inflight, published, channel, memoryVars, cachedMemory, cachedFileUri,
                   activeFile, posted>>

\* webviewView.onDidChangeVisibility: when the view becomes visible, the two
\* live caches are dropped if the cache is for another file, and two timers
\* are started
onDidChangeVisibility ==
    /\ view.resolved
    /\ view' = [view EXCEPT !.visible = ~view.visible]
    /\ IF view'.visible
       THEN /\ IF cachedFileUri # activeFile
               THEN /\ cachedPinMap' = NoResults
                    /\ cachedLiveMemory' = NoResults
               ELSE UNCHANGED <<cachedPinMap, cachedLiveMemory>>
            /\ timers' = timers \cup VisibilityDelays
       ELSE UNCHANGED <<cachedPinMap, cachedLiveMemory, timers>>
    /\ UNCHANGED <<pc, text, stripperVars, databaseVars, trackerVars, providerVars, version,
                   inflight, published, channel, memoryVars, cachedMemory, cachedFileUri,
                   activeFile, posted>>

\* updateMemory: the memory of the last build, cached and posted
updateMemory ==
    /\ cachedMemory = NoResults
    /\ cachedMemory' = [version |-> 1, uri |-> Undefined]
    /\ posted' = postMessage("updateMemory", cachedMemory', NoResults, NoResults,
                             cachedFileUri)
    /\ UNCHANGED <<pc, text, stripperVars, databaseVars, trackerVars, providerVars,
                   sessionVars, memoryVars, cachedFileUri, activeFile, view, timers>>

\* a timer fires: sendAllCachedData posts each cache that is set
sendAllCachedData(delay) ==
    /\ delay \in timers
    /\ timers' = timers \ {delay}
    /\ posted' = postMessage("sendAllCachedData", cachedMemory, cachedPinMap,
                             cachedLiveMemory, cachedFileUri)
    /\ UNCHANGED <<pc, text, stripperVars, databaseVars, trackerVars, providerVars,
                   sessionVars, memoryVars, cachedMemory, cachedFileUri, activeFile, view>>

NextSidebar ==
    \/ \E uri \in Files : analysed(uri)
    \/ \E uri \in Files \cup {Undefined} : changeActiveTextEditor(uri)
    \/ updatePinMap
    \/ updateLiveMemory
    \/ updateMemory
    \/ resolveWebviewView
    \/ onDidChangeVisibility
    \/ \E delay \in ResolveDelays \cup VisibilityDelays : sendAllCachedData(delay)

SpecSidebar == InitSidebar /\ [][NextSidebar]_vars

\* C22: the pin map and the live memory that sendAllCachedData posts were
\* both computed for the file whose uri is _cachedFileUri.
PostedCachesAreOfCachedFile ==
    posted.by = "sendAllCachedData" =>
        /\ posted.pinMap # NoResults => posted.pinMap.uri = posted.fileUri
        /\ posted.liveMemory # NoResults => posted.liveMemory.uri = posted.fileUri

====
